---------------------------- MODULE Spec2Model ----------------------------
(***************************************************************************)
(* A model of rlox, a tree-walking interpreter: the scanner                *)
(* (src/src/scanner.rs), the recursive-descent parser (src/src/parser.rs), *)
(* the scope chain (src/src/environment.rs) and the evaluator              *)
(* (src/src/interpreter.rs).                                               *)
(*                                                                         *)
(* Every struct of the program is one variable holding a record with the   *)
(* struct's fields.  Rust values are owned: a `clone()` is a deep copy, so *)
(* an Environment is modelled as a value (a record that contains its       *)
(* enclosing Environment), exactly as Box<Environment> is laid out.        *)
(***************************************************************************)
EXTENDS Integers, Sequences, FiniteSets, TLC

VARIABLES
    envir,        \* environment.rs: an Environment (the chain under test)
    envOp,        \* the last method applied on its own (an Environment method,
                  \* evaluate_unary) with its arguments and what it returned
    interpreter,  \* interpreter.rs: the Interpreter struct and its stdout
    run,          \* Interpreter::interpret: progress and the last statement
    scanner,      \* scanner.rs: the Scanner struct
    parser        \* parser.rs: the Parser struct and parse()'s locals

vars == <<envir, envOp, interpreter, run, scanner, parser>>

(***************************************************************************)
(* Option<T>: None is the empty tuple, Some(v) the one-element tuple.      *)
(***************************************************************************)
None == <<>>

Some(v) == <<v>>

(***************************************************************************)
(* Evaluation (interpreter.rs:18-24).  Each variant has its own payload    *)
(* field.  f64 values are modelled by integers.                            *)
(***************************************************************************)
EvString(s) == [t |-> "string", s |-> s]

EvF64(n) == [t |-> "f64", n |-> n]

EvBool(b) == [t |-> "bool", b |-> b]

EvNil == [t |-> "nil"]

(***************************************************************************)
(* InterpretError (errors.rs:37-70).  A formatted message is the format    *)
(* string and the values put into it.                                      *)
(***************************************************************************)
RuntimeError(err) == [kind |-> "RuntimeError", err |-> err]

UndefinedVariable(lexeme) == [kind |-> "UndefinedVariable", lexeme |-> lexeme]

CastError(expect, actual) == [kind |-> "CastError", expect |-> expect, actual |-> actual]

EvaluationAddOverloaderError(lhs, rhs) == [kind |-> "EvaluationAddOverloaderError", lhs |-> lhs, rhs |-> rhs]

EvaluateUnaryFail(right, op) == [kind |-> "EvaluateUnaryFail", right_evaluation |-> right, operator_type |-> op]

EvaluateBinaryFail(left, op, right) == [kind |-> "EvaluateBinaryFail", left_evaluation |-> left, operator_type |-> op, right_evaluation |-> right]

(***************************************************************************)
(* Result<T, InterpretError>.                                              *)
(***************************************************************************)
Ok(v) == [ok |-> TRUE, val |-> v]

Err(e) == [ok |-> FALSE, err |-> e]

(***************************************************************************)
(* HashMap<String, Option<Evaluation>>: a function on the keys present.    *)
(***************************************************************************)
EmptyMap == [n \in {} |-> None]

MapInsert(m, name, value) == [n \in (DOMAIN m) \cup {name} |-> IF n = name THEN value ELSE m[n]]

(***************************************************************************)
(* Environment (environment.rs).                                           *)
(***************************************************************************)
EnvironmentNew == [env |-> EmptyMap, enclosing |-> None]

define(self, name, value) == [self EXCEPT !.env = MapInsert(self.env, name, value)]

RECURSIVE get(_, _)
get(self, name) ==
    IF name \in DOMAIN self.env /\ self.env[name] # None
    THEN Ok(self.env[name][1])
    ELSE IF self.enclosing # None
         THEN get(self.enclosing[1], name)
         ELSE Err(RuntimeError([fmt |-> "Undefined variable '{}' of token '{:#?}'.", with |-> <<name, name>>]))

\* assign returns the Result and the Environment as the call leaves it.
RECURSIVE assign_implicit_global(_, _, _)
assign_implicit_global(self, name, value) ==
    IF name \in DOMAIN self.env
    THEN [res |-> Ok(<<>>), env |-> [self EXCEPT !.env = MapInsert(self.env, name, Some(value))]]
    ELSE IF self.enclosing # None
         THEN LET r == assign_implicit_global(self.enclosing[1], name, value)
              IN  [res |-> r.res, env |-> [self EXCEPT !.enclosing = Some(r.env)]]
         ELSE [res |-> Ok(<<>>), env |-> [self EXCEPT !.env = MapInsert(self.env, name, Some(value))]]

RECURSIVE assign(_, _, _)
assign(self, name, value) ==
    IF name \in DOMAIN self.env
    THEN [res |-> Ok(<<>>), env |-> [self EXCEPT !.env = MapInsert(self.env, name, Some(value))]]
    ELSE IF self.enclosing # None
         THEN LET r == assign(self.enclosing[1], name, value)
              IN  [res |-> r.res, env |-> [self EXCEPT !.enclosing = Some(r.env)]]
         ELSE [res |-> Err(UndefinedVariable(name)), env |-> self]

\* The scopes of a chain, innermost first.
RECURSIVE Scopes(_)
Scopes(e) == IF e.enclosing = None THEN <<e.env>> ELSE <<e.env>> \o Scopes(e.enclosing[1])

Depth(e) == Len(Scopes(e))


(***************************************************************************)
(* Literal (token.rs:5-11, as used by interpreter.rs:225-234) and the AST  *)
(* (expr.rs, stmt.rs, and the Stmt/Expr variants interpreter.rs matches).  *)
(* Tokens are represented by what the evaluator reads of them: the lexeme  *)
(* of a name, the token_type of an operator.                               *)
(***************************************************************************)
LitString(s) == [l |-> "string", s |-> s]

LitF64(n) == [l |-> "f64", n |-> n]

LitBool(b) == [l |-> "bool", b |-> b]

LitNil == [l |-> "nil"]

ExprLiteral(literal) == [t |-> "Literal", literal |-> literal]

ExprVar(name) == [t |-> "Var", name |-> name]

ExprAssign(name, value) == [t |-> "Assign", name |-> name, value |-> value]

ExprBinary(left, operator, right) == [t |-> "Binary", left |-> left, operator |-> operator, right |-> right]

ExprLogical(left, operator, right) == [t |-> "Logical", left |-> left, operator |-> operator, right |-> right]

ExprUnary(operator, right) == [t |-> "Unary", operator |-> operator, right |-> right]

ExprGrouping(expr) == [t |-> "Grouping", expr |-> expr]

ExprCall(callee, arguments) == [t |-> "Call", callee |-> callee, arguments |-> arguments]

StmtExpression(expr) == [t |-> "Expression", expr |-> expr]

StmtPrint(expr) == [t |-> "Print", expr |-> expr]

StmtVar(name, initializer) == [t |-> "Var", name |-> name, initializer |-> initializer]

StmtBlock(statements) == [t |-> "Block", statements |-> statements]

StmtIf(condition, then_branch, else_branch) == [t |-> "If", condition |-> condition, then_branch |-> then_branch, else_branch |-> else_branch]

StmtWhile(condition, body) == [t |-> "While", condition |-> condition, body |-> body]

StmtFunction(name, params, body) == [t |-> "Function", name |-> name, params |-> params, body |-> body]

StmtReturn(value) == [t |-> "Return", value |-> value]

(***************************************************************************)
(* Callable values (interpreter.rs:75-136).  arity is a u8.                *)
(***************************************************************************)
U8(n) == n % 256

NativeFunction(fn_name) == [t |-> "callable", kind |-> "NativeFunction", arity |-> 0, fn_name |-> fn_name]

RloxFunction(arity, fn_name, declaration, closure) == [t |-> "callable", kind |-> "RloxFunction", arity |-> arity, fn_name |-> fn_name, declaration |-> declaration, closure |-> closure]

\* impl From<Literal> for Evaluation
FromLiteral(literal) ==
    CASE literal.l = "string" -> EvString(literal.s)
      [] literal.l = "f64" -> EvF64(literal.n)
      [] literal.l = "bool" -> EvBool(literal.b)
      [] literal.l = "nil" -> EvNil

\* impl Display for Evaluation: "{f64:.2}", "fn <{:#?}>" of display()'s "{:#?}".
Display(value) ==
    CASE value.t = "string" -> value.s
      [] value.t = "f64" -> ToString(value.n) \o ".00"
      [] value.t = "bool" -> IF value.b THEN "true" ELSE "false"
      [] value.t = "nil" -> "nil"
      [] value.t = "callable" ->
            IF value.kind = "RloxFunction"
            THEN "fn <\"\\\"" \o value.fn_name \o "\\\"\">"
            ELSE "fn <\"" \o value.fn_name \o "\">"

\* impl PartialEq for Evaluation
EvEq(a, b) ==
    CASE a.t = "string" /\ b.t = "string" -> a.s = b.s
      [] a.t = "f64" /\ b.t = "f64" -> a.n = b.n
      [] a.t = "bool" /\ b.t = "bool" -> a.b = b.b
      [] a.t = "nil" /\ b.t = "nil" -> TRUE
      [] OTHER -> FALSE

\* impl Add for Evaluation
EvAdd(lhs, rhs) ==
    CASE lhs.t = "string" /\ rhs.t = "string" -> Ok(EvString(lhs.s \o rhs.s))
      [] lhs.t = "f64" /\ rhs.t = "f64" -> Ok(EvF64(lhs.n + rhs.n))
      [] OTHER -> Err(EvaluationAddOverloaderError(lhs, rhs))

evaluate_unary(right, operator_type) ==
    CASE right.t = "f64" /\ operator_type = "Minus" -> Ok(EvF64(-right.n))
      [] right.t = "bool" /\ operator_type = "Bang" -> Ok(EvBool(~right.b))
      [] right.t = "nil" /\ operator_type = "Bang" -> Ok(EvBool(FALSE))
      [] OTHER -> Err(EvaluateUnaryFail(right, operator_type))

\* f64 division: exact on the integers that divide; 1/0 is inf and 0/0 NaN
\* (no error is raised), carried as a quotient that was not reduced.
F64Div(n1, n2) ==
    IF n2 # 0 /\ n1 % n2 = 0 THEN EvF64(n1 \div n2)
    ELSE [t |-> "f64", n |-> n1, over |-> n2]

IsNum(v) == v.t = "f64" /\ DOMAIN v = {"t", "n"}

evaluate_binary(left, right, operator_type) ==
    CASE operator_type = "Plus" -> EvAdd(left, right)
      [] operator_type \in {"Minus", "Slash", "Star"} ->
            IF IsNum(left) /\ IsNum(right)
            THEN CASE operator_type = "Minus" -> Ok(EvF64(left.n - right.n))
                   [] operator_type = "Slash" -> Ok(F64Div(left.n, right.n))
                   [] operator_type = "Star" -> Ok(EvF64(left.n * right.n))
            ELSE Err(EvaluateBinaryFail(left, operator_type, right))
      [] operator_type \in {"Greater", "GreaterEqual", "Less", "LessEqual"} ->
            IF IsNum(left) /\ IsNum(right)
            THEN CASE operator_type = "Greater" -> Ok(EvBool(left.n > right.n))
                   [] operator_type = "GreaterEqual" -> Ok(EvBool(left.n >= right.n))
                   [] operator_type = "Less" -> Ok(EvBool(left.n < right.n))
                   [] operator_type = "LessEqual" -> Ok(EvBool(left.n <= right.n))
            ELSE Err(EvaluateBinaryFail(left, operator_type, right))
      [] operator_type = "BangEqual" -> Ok(EvBool(~EvEq(left, right)))
      [] operator_type = "EqualEqual" -> Ok(EvBool(EvEq(left, right)))
      [] OTHER -> Err(EvaluateBinaryFail(left, operator_type, right))

(***************************************************************************)
(* The evaluator (interpreter.rs:236-465).  I is the Interpreter:          *)
(*   globals, environment  the struct's fields;                            *)
(*   stdout                the lines println! wrote;                       *)
(*   trace                 a history of what evaluation did (reads,        *)
(*                         writes, definitions, calls and returns), kept   *)
(*                         only to state properties.                       *)
(* Every operator returns the Interpreter as the method leaves it and the  *)
(* method's Result.  `?` is the early return on Err: what follows it in    *)
(* the method does not happen.  fuel bounds the depth of calls and the     *)
(* iterations of a loop; running out of it stands for a program that does  *)
(* not come back.                                                          *)
(***************************************************************************)
Brief(value) == IF value.t = "callable" THEN [t |-> "callable", fn_name |-> value.fn_name] ELSE value

BriefOpt(opt) == IF opt = None THEN None ELSE Some(Brief(opt[1]))

Log(I, event) == [I EXCEPT !.trace = Append(@, event)]

Println(I, text) == [I EXCEPT !.stdout = Append(@, text)]

Exit(code) == [kind |-> "exit", code |-> code]

OutOfFuel == [kind |-> "OutOfFuel"]

\* RloxFunction::call, lines 155-166: the parameters are defined in order.
RECURSIVE bind_params(_, _, _, _)
bind_params(environment, params, arguments, i) ==
    IF i > Len(params) THEN environment
    ELSE bind_params(define(environment, params[i], Some(arguments[i])), params, arguments, i + 1)

RECURSIVE print_params(_, _, _, _)
print_params(I, params, arguments, i) ==
    IF i > Len(params) THEN I
    ELSE print_params(Println(I, "\"" \o params[i] \o "\"Some(" \o Display(arguments[i]) \o ")"), params, arguments, i + 1)

\* The methods call one another through `invoke`, which dispatches on the
\* method's name; call_<method> is a call of <method>.
RECURSIVE invoke(_, _)

call_evaluate(I, expr, fuel) == invoke("evaluate", <<I, expr, fuel>>)

call_evaluate_arguments(I, arguments, k, acc, fuel) == invoke("evaluate_arguments", <<I, arguments, k, acc, fuel>>)

call_stmt_evaluate(I, stmt, fuel) == invoke("stmt_evaluate", <<I, stmt, fuel>>)

call_find_map_execute(I, statements, k, fuel) == invoke("find_map_execute", <<I, statements, k, fuel>>)

call_stmt_execute_block(I, statements, environment, fuel) == invoke("stmt_execute_block", <<I, statements, environment, fuel>>)

call_while_loop(I, stmt, fuel) == invoke("while_loop", <<I, stmt, fuel>>)

call_rlox_function_call(self, I, callee, arguments, fuel) == invoke("rlox_function_call", <<self, I, callee, arguments, fuel>>)

call_evaluate_call(I, expr, fuel) == invoke("evaluate_call", <<I, expr, fuel>>)

call_evaluate_logical(I, expr, fuel) == invoke("evaluate_logical", <<I, expr, fuel>>)


\* Interpreter::stmt_execute_block (360-382).  The third field is the
\* `environment` argument (a &mut) as the method leaves it.
stmt_execute_block(I, statements, environment, fuel) ==
    LET previous == I.environment
        entered  == [I EXCEPT !.environment = [environment EXCEPT !.enclosing = Some(previous)]]
        a        == call_find_map_execute(entered, statements, 1, fuel)
    IN  IF ~a.r.ok
        THEN [I |-> a.I, r |-> a.r, environment |-> environment]
        ELSE [I |-> [a.I EXCEPT !.environment = a.I.environment.enclosing[1]],
              r |-> a.r,
              environment |-> a.I.environment]

\* statements.iter_mut().find_map(...) (369-376): stops at the first
\* statement that yields Some(value) or Err.
find_map_execute(I, statements, k, fuel) ==
    IF k > Len(statements) THEN [I |-> I, r |-> Ok(None)]
    ELSE LET s == call_stmt_evaluate(I, statements[k], fuel)
         IN  IF ~s.r.ok \/ s.r.val # None THEN s
             ELSE call_find_map_execute(s.I, statements, k + 1, fuel)

\* impl Callable for RloxFunction, call (143-177).
rlox_function_call(self, I, callee, arguments, fuel) ==
    IF fuel = 0 THEN [I |-> I, r |-> Err(OutOfFuel)]
    ELSE
    LET declaration == self.declaration
        environment == bind_params([self.closure EXCEPT !.enclosing = Some(I.environment)],
                                   declaration.params, arguments, 1)
        printed     == print_params(Println(I, "----------------"), declaration.params, arguments, 1)
        a           == call_stmt_execute_block(Log(printed, [ev |-> "call", fn |-> self.fn_name]),
                                          declaration.body, environment, fuel - 1)
    IN  IF ~a.r.ok THEN [I |-> a.I, r |-> a.r]
        ELSE LET updated == [self EXCEPT !.closure = a.environment]
                 defined == [a.I EXCEPT !.environment = define(a.I.environment, callee, Some(updated))]
             IN  [I |-> Log(defined, [ev |-> "return", fn |-> self.fn_name, val |-> BriefOpt(a.r.val)]),
                  r |-> Ok(a.r.val)]

\* impl Callable for NativeFunction, call (100-107): clock's closure
\* (246-259) returns Some(nil).
native_function_call(self, I, callee, arguments) == [I |-> I, r |-> Ok(Some(EvNil))]

\* expr.arguments.into_iter().try_for_each(...) (411-415)
evaluate_arguments(I, arguments, k, acc, fuel) ==
    IF k > Len(arguments) THEN [I |-> I, r |-> Ok(acc)]
    ELSE LET a == call_evaluate(I, arguments[k], fuel)
         IN  IF ~a.r.ok THEN a
             ELSE call_evaluate_arguments(a.I, arguments, k + 1, Append(acc, a.r.val), fuel)

\* The arity check of Expr::Call (419-429).
arity_mismatch_too_few(arity, nargs) == nargs < arity

arity_mismatch(arity, nargs) == nargs # arity

arity_error(arity, nargs) == RuntimeError([fmt |-> "Expected '{}' arguments but got '{}'", with |-> <<arity, nargs>>])

\* Interpreter::evaluate, the Expr::Call arm (402-439).
evaluate_call(I, expr, fuel) ==
    IF expr.callee.t # "Var"
    THEN [I |-> Println(I, "Invalid callee type"), r |-> Err(Exit(22))]
    ELSE
    LET callee == expr.callee.name
        c      == call_evaluate(I, expr.callee, fuel)
    IN  IF ~c.r.ok THEN c
        ELSE
        LET args == call_evaluate_arguments(c.I, expr.arguments, 1, <<>>, fuel)
        IN  IF ~args.r.ok THEN args
            ELSE IF c.r.val.t # "callable"
            THEN [I |-> args.I, r |-> Err(CastError("Callable", Display(c.r.val)))]
            ELSE IF arity_mismatch(c.r.val.arity, Len(args.r.val))
            THEN [I |-> args.I, r |-> Err(arity_error(c.r.val.arity, Len(args.r.val)))]
            ELSE LET a == IF c.r.val.kind = "RloxFunction"
                          THEN call_rlox_function_call(c.r.val, args.I, callee, args.r.val, fuel)
                          ELSE native_function_call(c.r.val, args.I, callee, args.r.val)
                 IN  IF ~a.r.ok THEN a
                     ELSE [I |-> a.I, r |-> Ok(IF a.r.val = None THEN EvNil ELSE a.r.val[1])]

\* Interpreter::evaluate, the Expr::Logical arm (441-453).
evaluate_logical(I, expr, fuel) ==
    LET left == call_evaluate(I, expr.left, fuel)
    IN  IF ~left.r.ok THEN left
        ELSE IF /\ left.r.val.t = "bool"
                /\ \/ (expr.operator = "Or" /\ left.r.val.b)
                   \/ (expr.operator = "And" /\ ~left.r.val.b)
        THEN left
        ELSE call_evaluate(left.I, expr.right, fuel)

\* Interpreter::evaluate (394-465).
evaluate(I, expr, fuel) ==
    CASE expr.t = "Assign" ->
            LET value == call_evaluate(I, expr.value, fuel)
            IN  IF ~value.r.ok THEN value
                ELSE LET a == assign(value.I.environment, expr.name, value.r.val)
                     IN  IF ~a.res.ok THEN [I |-> value.I, r |-> a.res]
                         ELSE [I |-> Log([value.I EXCEPT !.environment = a.env],
                                         [ev |-> "write", name |-> expr.name, val |-> Some(Brief(value.r.val))]),
                               r |-> Ok(value.r.val)]
      [] expr.t = "Literal" -> [I |-> I, r |-> Ok(FromLiteral(expr.literal))]
      [] expr.t = "Call" -> call_evaluate_call(I, expr, fuel)
      [] expr.t = "Grouping" -> call_evaluate(I, expr.expr, fuel)
      [] expr.t = "Logical" -> call_evaluate_logical(I, expr, fuel)
      [] expr.t = "Unary" ->
            LET right == call_evaluate(I, expr.right, fuel)
            IN  IF ~right.r.ok THEN right
                ELSE [I |-> right.I, r |-> evaluate_unary(right.r.val, expr.operator)]
      [] expr.t = "Binary" ->
            LET left == call_evaluate(I, expr.left, fuel)
            IN  IF ~left.r.ok THEN left
                ELSE LET right == call_evaluate(left.I, expr.right, fuel)
                     IN  IF ~right.r.ok THEN right
                         ELSE [I |-> right.I, r |-> evaluate_binary(left.r.val, right.r.val, expr.operator)]
      [] expr.t = "Var" ->
            LET g == get(I.environment, expr.name)
            IN  IF ~g.ok THEN [I |-> I, r |-> g]
                ELSE [I |-> Log(I, [ev |-> "read", name |-> expr.name, val |-> Brief(g.val)]), r |-> g]

\* The loop of the Stmt::While arm (296-301).
while_loop(I, stmt, fuel) ==
    IF fuel = 0 THEN [I |-> I, r |-> Err(OutOfFuel)]
    ELSE
    LET c == call_evaluate(I, stmt.condition, fuel)
    IN  IF ~c.r.ok THEN c
        ELSE IF c.r.val.t = "bool" /\ c.r.val.b
        THEN LET b == call_stmt_evaluate(c.I, stmt.body, fuel)
             IN  IF ~b.r.ok \/ b.r.val # None THEN b
                 ELSE call_while_loop(b.I, stmt, fuel - 1)
        ELSE [I |-> c.I, r |-> Ok(None)]

\* Interpreter::stmt_evaluate (286-358); stmt_execute (282-284) and
\* execute_with_return (384-392) only pass its result on.
stmt_evaluate(I, stmt, fuel) ==
    CASE stmt.t = "Return" ->
            IF stmt.value = None THEN [I |-> I, r |-> Ok(None)]
            ELSE LET v == call_evaluate(I, stmt.value[1], fuel)
                 IN  IF ~v.r.ok THEN v ELSE [I |-> v.I, r |-> Ok(Some(v.r.val))]
      [] stmt.t = "While" -> call_while_loop(I, stmt, fuel)
      [] stmt.t = "If" ->
            LET c == call_evaluate(I, stmt.condition, fuel)
            IN  IF ~c.r.ok THEN c
                ELSE IF c.r.val.t = "bool"
                THEN IF c.r.val.b THEN call_stmt_evaluate(c.I, stmt.then_branch, fuel)
                     ELSE IF stmt.else_branch # None
                          THEN call_stmt_evaluate(c.I, stmt.else_branch[1], fuel)
                          ELSE [I |-> c.I, r |-> Ok(None)]
                ELSE [I |-> c.I, r |-> Ok(None)]
      [] stmt.t = "Function" ->
            LET function == RloxFunction(U8(Len(stmt.params)), stmt.name, stmt, I.environment)
            IN  [I |-> Log([I EXCEPT !.environment = define(I.environment, stmt.name, Some(function))],
                           [ev |-> "define", name |-> stmt.name, val |-> Some(Brief(function))]),
                 r |-> Ok(None)]
      [] stmt.t = "Block" ->
            LET a == call_stmt_execute_block(I, stmt.statements, EnvironmentNew, fuel)
            IN  [I |-> a.I, r |-> a.r]
      [] stmt.t = "Expression" ->
            LET evl == call_evaluate(I, stmt.expr, fuel)
            IN  IF ~evl.r.ok THEN evl ELSE [I |-> evl.I, r |-> Ok(None)]
      [] stmt.t = "Print" ->
            LET value == call_evaluate(I, stmt.expr, fuel)
            IN  IF ~value.r.ok THEN value
                ELSE [I |-> Println(value.I, Display(value.r.val)), r |-> Ok(None)]
      [] stmt.t = "Var" ->
            LET a == IF stmt.initializer = None THEN [I |-> I, r |-> Ok(None)]
                     ELSE LET v == call_evaluate(I, stmt.initializer[1], fuel)
                          IN  IF ~v.r.ok THEN v ELSE [I |-> v.I, r |-> Ok(Some(v.r.val))]
            IN  IF ~a.r.ok THEN a
                ELSE [I |-> Log([a.I EXCEPT !.environment = define(a.I.environment, stmt.name, a.r.val)],
                                [ev |-> "define", name |-> stmt.name, val |-> BriefOpt(a.r.val)]),
                      r |-> Ok(None)]

\* The dispatch of a call to the method it names.
invoke(method, a) ==
    CASE method = "evaluate" -> evaluate(a[1], a[2], a[3])
      [] method = "evaluate_arguments" -> evaluate_arguments(a[1], a[2], a[3], a[4], a[5])
      [] method = "stmt_evaluate" -> stmt_evaluate(a[1], a[2], a[3])
      [] method = "find_map_execute" -> find_map_execute(a[1], a[2], a[3], a[4])
      [] method = "stmt_execute_block" -> stmt_execute_block(a[1], a[2], a[3], a[4])
      [] method = "while_loop" -> while_loop(a[1], a[2], a[3])
      [] method = "rlox_function_call" -> rlox_function_call(a[1], a[2], a[3], a[4], a[5])
      [] method = "evaluate_call" -> evaluate_call(a[1], a[2], a[3])
      [] method = "evaluate_logical" -> evaluate_logical(a[1], a[2], a[3])


\* Interpreter::new (243-272): clock goes into globals; environment is a
\* fresh Environment that does not enclose globals.
InterpreterNew ==
    [globals     |-> define(EnvironmentNew, "clock", Some(NativeFunction("clock"))),
     environment |-> EnvironmentNew,
     stdout      |-> <<>>,
     trace       |-> <<>>]

(***************************************************************************)
(* token.rs: a Token.  A String that the program slices (the source, a     *)
(* lexeme cut out of it) is a sequence of one-character strings.           *)
(***************************************************************************)
Token(token_type, lexeme, literal, line) == [token_type |-> token_type, lexeme |-> lexeme, literal |-> literal, line |-> line]

LitUsize(n) == [l |-> "usize", n |-> n]

(***************************************************************************)
(* reserved.rs: RESERVED_KEYWORDS.                                         *)
(***************************************************************************)
RESERVED_KEYWORDS ==
    [w \in {<<"a", "n", "d">>, <<"c", "l", "a", "s", "s">>, <<"e", "l", "s", "e">>,
            <<"f", "a", "l", "s", "e">>, <<"f", "o", "r">>, <<"f", "u", "n">>, <<"i", "f">>,
            <<"n", "i", "l">>, <<"o", "r">>, <<"p", "r", "i", "n", "t">>,
            <<"r", "e", "t", "u", "r", "n">>, <<"s", "u", "p", "e", "r">>, <<"t", "h", "i", "s">>,
            <<"t", "r", "u", "e">>, <<"v", "a", "r">>, <<"w", "h", "i", "l", "e">>} |->
        CASE w = <<"a", "n", "d">> -> "And"
          [] w = <<"c", "l", "a", "s", "s">> -> "Class"
          [] w = <<"e", "l", "s", "e">> -> "Else"
          [] w = <<"f", "a", "l", "s", "e">> -> "False"
          [] w = <<"f", "o", "r">> -> "For"
          [] w = <<"f", "u", "n">> -> "Fun"
          [] w = <<"i", "f">> -> "If"
          [] w = <<"n", "i", "l">> -> "Nil"
          [] w = <<"o", "r">> -> "Or"
          [] w = <<"p", "r", "i", "n", "t">> -> "Print"
          [] w = <<"r", "e", "t", "u", "r", "n">> -> "Return"
          [] w = <<"s", "u", "p", "e", "r">> -> "Super"
          [] w = <<"t", "h", "i", "s">> -> "This"
          [] w = <<"t", "r", "u", "e">> -> "True"
          [] w = <<"v", "a", "r">> -> "Var"
          [] w = <<"w", "h", "i", "l", "e">> -> "While"]

(***************************************************************************)
(* scanner.rs.  A method takes the Scanner and returns it as the method    *)
(* leaves it, with the method's value where it has one.  status is where   *)
(* the scan is: "new" (constructed), "done" (scan_tokens returned),        *)
(* "panic" (an unwrap() of None or a slice out of range unwound the        *)
(* thread), "exit(11)" and "exit(12)" (process::exit).  The sources of     *)
(* the model are ASCII, so a byte offset is a character offset.            *)
(***************************************************************************)
NUL == "\\0"

Digits == {"0", "1", "2", "3", "4", "5", "6", "7", "8", "9"}

Letters == {"a", "b", "c", "d", "e", "f", "g", "h", "i", "j", "k", "l", "m",
            "n", "o", "p", "q", "r", "s", "t", "u", "v", "w", "x", "y", "z"}

is_numeric(c) == c \in Digits

is_alphabetic(c) == c \in Letters

is_alphanumeric(c) == is_alphabetic(c) \/ is_numeric(c)

ScannerNew(source) == [source |-> source, tokens |-> <<>>, start |-> 0, current |-> 0, line |-> 1, status |-> "new"]

Panic(self) == [self EXCEPT !.status = "panic"]

\* self.source.chars().nth(i): None past the last character.
nth(self, i) == IF i < Len(self.source) THEN Some(self.source[i + 1]) ELSE None

\* &self.source[from..to]: None stands for the panic of a range that is
\* reversed or ends past the source.
Slice(self, from, to) ==
    IF from > to \/ to > Len(self.source) THEN None
    ELSE Some(SubSeq(self.source, from + 1, to))

is_end(self) == Len(self.source) < self.current

advance(self) ==
    LET char == nth(self, self.current)
    IN  IF char = None THEN [s |-> Panic(self), c |-> NUL]
        ELSE [s |-> [self EXCEPT !.current = @ + 1], c |-> char[1]]

add_token(self, token_type, literal) ==
    LET lexeme == Slice(self, self.start, self.current)
    IN  IF lexeme = None THEN Panic(self)
        ELSE [self EXCEPT !.tokens = Append(@, Token(token_type, lexeme[1], literal, self.line))]

match_char(self, expected_char) ==
    IF is_end(self) THEN [s |-> self, b |-> FALSE]
    ELSE LET char == nth(self, self.current)
         IN  IF char = None THEN [s |-> Panic(self), b |-> FALSE]
             ELSE IF char[1] # expected_char THEN [s |-> self, b |-> FALSE]
             ELSE [s |-> [self EXCEPT !.current = @ + 1], b |-> TRUE]

\* peek and peek_next return Some(char), or None where their unwrap() panics.
peek(self) == IF is_end(self) THEN Some(NUL) ELSE nth(self, self.current)

peek_next(self) == IF Len(self.source) < self.current + 1 THEN Some(NUL) ELSE nth(self, self.current + 1)

\* while self.peek() != '\n' && !self.is_end() { self.advance(); }  (89-91)
RECURSIVE skip_comment(_)
skip_comment(self) ==
    LET p == peek(self)
    IN  IF p = None THEN Panic(self)
        ELSE IF p[1] # "\n" /\ ~is_end(self)
        THEN LET a == advance(self)
             IN  IF a.s.status = "panic" THEN a.s ELSE skip_comment(a.s)
        ELSE self

\* The loop of string (178-183).
RECURSIVE string_loop(_)
string_loop(self) ==
    LET p == peek(self)
    IN  IF p = None THEN Panic(self)
        ELSE IF p[1] # "\"" /\ ~is_end(self)
        THEN LET counted == IF p[1] = "\n" THEN [self EXCEPT !.line = @ + 1] ELSE self
                 a       == advance(counted)
             IN  IF a.s.status = "panic" THEN a.s ELSE string_loop(a.s)
        ELSE self

string(self) ==
    LET l == string_loop(self)
    IN  IF l.status = "panic" THEN l
        ELSE IF is_end(l) THEN [l EXCEPT !.status = "exit(12)"]
        ELSE LET a == advance(l)
             IN  IF a.s.status = "panic" THEN a.s
                 ELSE LET literal == Slice(a.s, a.s.start + 1, a.s.current - 1)
                      IN  IF literal = None THEN Panic(a.s)
                          ELSE add_token(a.s, "String", Some(LitString(literal[1])))

\* while self.peek().is_numeric() { self.advance(); }  (197-199, 204-206)
RECURSIVE digits_loop(_)
digits_loop(self) ==
    LET p == peek(self)
    IN  IF p = None THEN Panic(self)
        ELSE IF is_numeric(p[1])
        THEN LET a == advance(self)
             IN  IF a.s.status = "panic" THEN a.s ELSE digits_loop(a.s)
        ELSE self

\* str::parse::<usize>: None is the Err that unwrap() panics on.
RECURSIVE DecimalValue(_)
DecimalValue(text) ==
    IF text = <<>> THEN 0
    ELSE 10 * DecimalValue(SubSeq(text, 1, Len(text) - 1))
         + (CHOOSE d \in 0..9 : ToString(d) = text[Len(text)])

parse_usize(text) ==
    IF text = <<>> \/ \E i \in DOMAIN text : ~is_numeric(text[i]) THEN None
    ELSE Some(DecimalValue(text))

number(self) ==
    LET whole == digits_loop(self)
    IN  IF whole.status = "panic" THEN whole
        ELSE
        LET next == peek_next(whole)
            dot  == peek(whole)[1] = "."
            all  == IF dot /\ next # None /\ is_numeric(next[1])
                    THEN digits_loop(advance(whole).s)
                    ELSE whole
        IN  IF dot /\ next = None THEN Panic(whole)
            ELSE IF all.status = "panic" THEN all
            ELSE LET text    == Slice(all, all.start + 1, all.current - 1)
                     literal == IF text = None THEN None ELSE parse_usize(text[1])
                 IN  IF literal = None THEN Panic(all)
                     ELSE add_token(all, "String", Some(LitUsize(literal[1])))

\* while self.peek().is_alphanumeric() { self.advance(); }  (219-221)
RECURSIVE alphanumeric_loop(_)
alphanumeric_loop(self) ==
    LET p == peek(self)
    IN  IF p = None THEN Panic(self)
        ELSE IF is_alphanumeric(p[1])
        THEN LET a == advance(self)
             IN  IF a.s.status = "panic" THEN a.s ELSE alphanumeric_loop(a.s)
        ELSE self

identifier(self) ==
    LET l == alphanumeric_loop(self)
    IN  IF l.status = "panic" THEN l
        ELSE LET text == Slice(l, l.start, l.current)
             IN  IF text = None THEN Panic(l)
                 ELSE add_token(l, IF text[1] \in DOMAIN RESERVED_KEYWORDS
                                   THEN RESERVED_KEYWORDS[text[1]] ELSE "Identifier", None)

\* The one-character tokens of _scan_tokens (44-53).
SingleCharToken ==
    [c \in {"(", ")", "{", "}", ",", ".", "-", "+", ";", "*"} |->
        CASE c = "(" -> "LeftParen" [] c = ")" -> "RightParen"
          [] c = "{" -> "LeftBrace" [] c = "}" -> "RightBrace"
          [] c = "," -> "Comma" [] c = "." -> "Dot"
          [] c = "-" -> "Minus" [] c = "+" -> "Plus"
          [] c = ";" -> "Semicolon" [] c = "*" -> "Star"]

\* The arms '!', '=', '<', '>' (55-86): the type with and without a '='.
OneOrTwoCharToken ==
    [c \in {"!", "=", "<", ">"} |->
        CASE c = "!" -> <<"BangEqual", "Bang">>
          [] c = "=" -> <<"EqualEqual", "Equal">>
          [] c = "<" -> <<"LessEqual", "Less">>
          [] c = ">" -> <<"GreaterEqual", "Greater">>]

\* Scanner::_scan_tokens (40-125).
scan_token(self) ==
    LET a == advance(self)
        c == a.c
    IN  IF a.s.status = "panic" THEN a.s
        ELSE CASE c \in DOMAIN SingleCharToken -> add_token(a.s, SingleCharToken[c], None)
               [] c \in DOMAIN OneOrTwoCharToken ->
                    LET m == match_char(a.s, "=")
                    IN  IF m.s.status = "panic" THEN m.s
                        ELSE add_token(m.s, OneOrTwoCharToken[c][IF m.b THEN 1 ELSE 2], None)
               [] c = "/" ->
                    LET m == match_char(a.s, "/")
                        k == IF m.s.status # "panic" /\ m.b THEN skip_comment(m.s) ELSE m.s
                    IN  IF k.status = "panic" THEN k ELSE add_token(k, "Slash", None)
               [] c \in {" ", "\r", "\t"} -> a.s
               [] c = "\n" -> [a.s EXCEPT !.line = @ + 1]
               [] c = "\"" ->
                    LET s == string(a.s)
                    IN  IF s.status # "new" THEN s ELSE [s EXCEPT !.line = @ + 1]
               [] c = "o" ->
                    LET m == match_char(a.s, "r")
                    IN  IF m.s.status # "panic" /\ m.b THEN add_token(m.s, "Or", None) ELSE m.s
               [] OTHER ->
                    IF is_numeric(c) THEN number(a.s)
                    ELSE IF is_alphabetic(c) THEN identifier(a.s)
                    ELSE [a.s EXCEPT !.status = "exit(11)"]

\* Scanner::scan_tokens (30-38).
RECURSIVE scan_tokens(_)
scan_tokens(self) ==
    IF self.status # "new" THEN self
    ELSE IF ~is_end(self)
    THEN scan_tokens(scan_token([self EXCEPT !.start = self.current]))
    ELSE [self EXCEPT !.tokens = Append(@, Token("EOF", <<" ">>, None, self.line)),
                      !.status = "done"]

(***************************************************************************)
(* parser.rs.  A method takes the Parser and returns [p, r]: the Parser    *)
(* as the method leaves it and what the method returns (a Result, or the   *)
(* Option<Stmt> of declaration).  status is "new" (constructed), "done"    *)
(* (parse returned) or "panic" (unwrap() of None, unimplemented!()): a     *)
(* panic unwinds through every caller, carried as Err(PanicErr).           *)
(* reported is what the parser printed.  The names of the Parser's         *)
(* helpers that the Scanner also has carry the prefix p_.                  *)
(***************************************************************************)
ParseEOF(token) == [kind |-> "ParseEOF", token |-> token]

ParseFail(token, message) == [kind |-> "ParseFail", token |-> token, message |-> message]

InvalidAssignmentTarget(token) == [kind |-> "InvalidAssignmentTarget", token |-> token]

PanicErr == [kind |-> "panic"]

ParserNew(tokens) == [tokens |-> tokens, current |-> 0, status |-> "new", reported |-> <<>>, statements |-> <<>>]

Unwound(self) == [self EXCEPT !.status = "panic"]

Panicked(self) == [p |-> Unwound(self), r |-> Err(PanicErr)]

\* self.tokens.get(i): None outside the vector (usize: i - 1 at 0 is outside).
tokens_get(self, i) == IF 0 <= i /\ i < Len(self.tokens) THEN Some(self.tokens[i + 1]) ELSE None

p_peek(self) ==
    LET t == tokens_get(self, self.current)
    IN  IF t = None THEN Panicked(self) ELSE [p |-> self, r |-> Ok(t[1])]

p_previous(self) ==
    LET t == tokens_get(self, self.current - 1)
    IN  IF t = None THEN Panicked(self) ELSE [p |-> self, r |-> Ok(t[1])]

p_peek_consume(self) ==
    LET t == tokens_get(self, self.current)
    IN  IF t = None THEN Panicked(self)
        ELSE [p |-> [self EXCEPT !.current = @ + 1], r |-> Ok(t[1])]

p_is_at_end(self) ==
    LET t == p_peek(self)
    IN  IF ~t.r.ok THEN t ELSE [p |-> self, r |-> Ok(t.r.val.token_type = "EOF")]

\* advance without its test of is_at_end: the cursor always moves.
p_advance_unchecked(self) == p_previous([self EXCEPT !.current = @ + 1])

p_advance(self) ==
    LET e == p_is_at_end(self)
    IN  IF ~e.r.ok THEN e
        ELSE p_previous(IF ~e.r.val THEN [self EXCEPT !.current = @ + 1] ELSE self)

p_check(self, token_type) ==
    LET e == p_is_at_end(self)
        t == p_peek(self)
    IN  IF ~e.r.ok THEN e
        ELSE IF e.r.val THEN [p |-> self, r |-> Err(ParseEOF(t.r.val))]
        ELSE [p |-> self, r |-> Ok(t.r.val.token_type = token_type)]

p_consume(self, token_type, message) ==
    LET e == p_is_at_end(self)
        t == p_peek(self)
    IN  IF ~e.r.ok THEN e
        ELSE IF e.r.val THEN [p |-> self, r |-> Err(ParseEOF(t.r.val))]
        ELSE IF t.r.val.token_type = token_type THEN p_advance(self)
        ELSE [p |-> self, r |-> Err(ParseFail(t.r.val, message))]

p_match_token(self, token_types) ==
    LET e == p_is_at_end(self)
        t == p_peek(self)
    IN  IF ~e.r.ok THEN e
        ELSE IF e.r.val THEN [p |-> self, r |-> Ok(FALSE)]
        ELSE IF t.r.val.token_type \in token_types
        THEN LET a == p_advance(self)
             IN  IF ~a.r.ok THEN a ELSE [p |-> a.p, r |-> Ok(TRUE)]
        ELSE [p |-> self, r |-> Ok(FALSE)]

\* println!("Prior to synchronize: {}", err)
Report(self, err) == [self EXCEPT !.reported = Append(@, err)]

\* The loop of synchronize (301-321); `previous` is the token that
\* synchronize's first advance returned.
RECURSIVE synchronize_loop(_, _)
synchronize_loop(self, previous) ==
    LET at(e, t) ==
            IF ~e.r.ok THEN e.p
            ELSE IF e.r.val THEN self
            ELSE IF previous.token_type = "Semicolon" THEN self
            ELSE IF t.r.val.token_type \in {"Class", "Fun", "Var", "For", "If", "While", "Print"}
            THEN LET advanced(a) == IF ~a.r.ok THEN a.p ELSE synchronize_loop(a.p, previous)
                 IN  advanced(p_advance(self))
            ELSE IF t.r.val.token_type = "Return" THEN self
            ELSE Unwound(self)
    IN  at(p_is_at_end(self), p_peek(self))

synchronize(self) ==
    LET advanced(previous) ==
            IF ~previous.r.ok THEN previous.p
            ELSE synchronize_loop(previous.p, previous.r.val)
    IN  advanced(p_advance(self))

\* A call of the method of the Parser that is named (the fn pointer
\* parse_fn of binary_expr and unary_expr, and self.<method>()).  A method
\* below is written as its steps in turn: step(x) is what the method does
\* once the call before it returned x, and an Err returns at once (`?`).
RECURSIVE parse_fn(_, _)

\* The loop of binary_expr (395-399).
RECURSIVE binary_loop(_, _, _, _)
binary_loop(self, expr, method, match_types) ==
    LET matched(m) ==
            IF ~m.r.ok THEN m
            ELSE IF ~m.r.val THEN [p |-> self, r |-> Ok(expr)]
            ELSE LET parsed(operator, right) ==
                         IF ~operator.r.ok THEN operator
                         ELSE IF ~right.r.ok THEN right
                         ELSE binary_loop(right.p, ExprBinary(expr, operator.r.val.token_type, right.r.val),
                                          method, match_types)
                 IN  parsed(p_previous(m.p), parse_fn(method, m.p))
    IN  matched(p_match_token(self, match_types))

binary_expr(self, method, match_types) ==
    LET parsed(expr) ==
            IF ~expr.r.ok THEN expr
            ELSE binary_loop(expr.p, expr.r.val, method, match_types)
    IN  parsed(parse_fn(method, self))

RECURSIVE unary_expr(_, _, _)
unary_expr(self, method, match_types) ==
    LET matched(m) ==
            IF ~m.r.ok THEN m
            ELSE IF m.r.val
            THEN LET parsed(operator, right) ==
                         IF ~operator.r.ok THEN operator
                         ELSE IF ~right.r.ok THEN right
                         ELSE [p |-> right.p, r |-> Ok(ExprUnary(operator.r.val.token_type, right.r.val))]
                 IN  parsed(p_previous(m.p), unary_expr(m.p, method, match_types))
            ELSE parse_fn(method, self)
    IN  matched(p_match_token(self, match_types))

\* primary (279-286): the LeftParen arm; the Result of consume is dropped.
primary_grouping(self) ==
    LET parsed(expr) ==
            IF ~expr.r.ok THEN expr
            ELSE LET consumed(closed) ==
                         IF closed.p.status = "panic" THEN closed
                         ELSE [p |-> closed.p, r |-> Ok(ExprGrouping(expr.r.val))]
                 IN  consumed(p_consume(expr.p, "RightParen", "Expect ')' after expression."))
    IN  parsed(parse_fn("expression", self))

\* primary (271-293): the match on the token that peek_consume returned;
\* `previous` is self.previous() and `next` self.peek() after it.
primary_match(self, tt, previous, next) ==
    CASE tt = "True" -> [p |-> self, r |-> Ok(ExprLiteral(LitBool(TRUE)))]
      [] tt = "False" -> [p |-> self, r |-> Ok(ExprLiteral(LitBool(FALSE)))]
      [] tt = "Nil" -> [p |-> self, r |-> Ok(ExprLiteral(LitNil))]
      [] tt \in {"Number", "String"} ->
            IF ~previous.r.ok THEN previous
            ELSE IF previous.r.val.literal = None THEN Panicked(self)
            ELSE [p |-> self, r |-> Ok(ExprLiteral(previous.r.val.literal[1]))]
      [] tt = "Identifier" ->
            IF ~previous.r.ok THEN previous ELSE [p |-> self, r |-> Ok(ExprVar(previous.r.val.lexeme))]
      [] tt = "Var" ->
            IF ~next.r.ok THEN next ELSE [p |-> self, r |-> Ok(ExprVar(next.r.val.lexeme))]
      [] tt = "LeftParen" -> primary_grouping(self)
      [] OTHER ->
            IF ~next.r.ok THEN next
            ELSE [p |-> self, r |-> Err(ParseFail(next.r.val, "Expect expression."))]

primary(self) ==
    LET at(e, t) ==
            IF ~e.r.ok THEN e
            ELSE IF e.r.val THEN [p |-> self, r |-> Err(ParseEOF(t.r.val))]
            ELSE LET consumed(c) ==
                         IF ~c.r.ok THEN c
                         ELSE primary_match(c.p, c.r.val.token_type, p_previous(c.p), p_peek(c.p))
                 IN  consumed(p_peek_consume(self))
    IN  at(p_is_at_end(self), p_peek(self))

unary(self) == unary_expr(self, "primary", {"Bang", "Minus"})

factor(self) == binary_expr(self, "unary", {"Slash", "Star"})

term(self) == binary_expr(self, "factor", {"Plus", "Minus"})

comparison(self) == binary_expr(self, "term", {"Greater", "GreaterEqual", "Less", "LessEqual"})

equality(self) == binary_expr(self, "comparison", {"Bang", "BangEqual"})

and(self) == binary_expr(self, "equality", {"And"})

or(self) == binary_expr(self, "and", {"Or"})

assignment(self) ==
    LET parsed(expr) ==
            IF ~expr.r.ok THEN expr
            ELSE
            LET matched(m) ==
                    IF ~m.r.ok THEN m
                    ELSE IF ~m.r.val THEN [p |-> expr.p, r |-> Ok(expr.r.val)]
                    ELSE LET assigned(equals, value) ==
                                 IF ~equals.r.ok THEN equals
                                 ELSE IF ~value.r.ok THEN value
                                 ELSE IF expr.r.val.t = "Var"
                                 THEN [p |-> value.p, r |-> Ok(ExprAssign(expr.r.val.name, value.r.val))]
                                 ELSE [p |-> value.p, r |-> Err(InvalidAssignmentTarget(equals.r.val))]
                         IN  assigned(p_previous(m.p), parse_fn("assignment", m.p))
            IN  matched(p_match_token(expr.p, {"Equal"}))
    IN  parsed(parse_fn("or", self))

expression(self) == parse_fn("assignment", self)

expression_statement(self) ==
    LET parsed(expr) ==
            IF ~expr.r.ok THEN expr
            ELSE LET consumed(semi) ==
                         IF ~semi.r.ok THEN semi ELSE [p |-> semi.p, r |-> Ok(StmtExpression(expr.r.val))]
                 IN  consumed(p_consume(expr.p, "Semicolon", "Expect ';' after expression."))
    IN  parsed(parse_fn("expression", self))

print_statement(self) ==
    LET parsed(value) ==
            IF ~value.r.ok THEN value
            ELSE LET consumed(semi) ==
                         IF ~semi.r.ok THEN semi ELSE [p |-> semi.p, r |-> Ok(StmtPrint(value.r.val))]
                 IN  consumed(p_consume(value.p, "Semicolon", "Expect ';' after value."))
    IN  parsed(parse_fn("expression", self))

\* The loop of block (184-189): declaration().unwrap() panics on None.
RECURSIVE block_loop(_, _)
block_loop(self, statements) ==
    LET at(e, t) ==
            IF ~e.r.ok THEN e
            ELSE IF e.r.val \/ t.r.val.token_type = "RightBrace" THEN [p |-> self, r |-> Ok(statements)]
            ELSE LET declared(d) ==
                         IF d.p.status = "panic" THEN [p |-> d.p, r |-> Err(PanicErr)]
                         ELSE IF d.r = None THEN Panicked(d.p)
                         ELSE block_loop(d.p, Append(statements, d.r[1]))
                 IN  declared(parse_fn("declaration", self))
    IN  at(p_is_at_end(self), p_peek(self))

block(self) ==
    LET looped(statements) ==
            IF ~statements.r.ok THEN statements
            ELSE LET consumed(brace) ==
                         IF ~brace.r.ok THEN brace ELSE [p |-> brace.p, r |-> Ok(statements.r.val)]
                 IN  consumed(p_consume(statements.p, "RightBrace", "Expect '}' after block."))
    IN  looped(block_loop(self, <<>>))

\* if_statement (164-172), after the condition and its ')'.
if_branches(self, condition) ==
    LET parsed(then_branch) ==
            IF ~then_branch.r.ok THEN then_branch
            ELSE
            LET matched(m) ==
                    IF ~m.r.ok THEN m
                    ELSE IF ~m.r.val
                    THEN [p |-> m.p, r |-> Ok(StmtIf(condition, then_branch.r.val, None))]
                    ELSE LET else_parsed(a) ==
                                 IF ~a.r.ok THEN a
                                 ELSE [p |-> a.p, r |-> Ok(StmtIf(condition, then_branch.r.val, Some(a.r.val)))]
                         IN  else_parsed(parse_fn("statement", m.p))
            IN  matched(p_match_token(then_branch.p, {"Else"}))
    IN  parsed(parse_fn("statement", self))

if_statement(self) ==
    LET opened(open) ==
            IF ~open.r.ok THEN open
            ELSE
            LET parsed(condition) ==
                    IF ~condition.r.ok THEN condition
                    ELSE LET closed(close) ==
                                 IF ~close.r.ok THEN close ELSE if_branches(close.p, condition.r.val)
                         IN  closed(p_consume(condition.p, "RightParen", "Expect ')' after 'if'."))
            IN  parsed(parse_fn("expression", open.p))
    IN  opened(p_consume(self, "LeftParen", "Expect '(' after 'if'."))

while_statement(self) ==
    LET opened(open) ==
            IF ~open.r.ok THEN open
            ELSE
            LET parsed(condition) ==
                    IF ~condition.r.ok THEN condition
                    ELSE
                    LET closed(close) ==
                            IF ~close.r.ok THEN close
                            ELSE LET body_parsed(body) ==
                                         IF ~body.r.ok THEN body
                                         ELSE [p |-> body.p, r |-> Ok(StmtWhile(condition.r.val, body.r.val))]
                                 IN  body_parsed(parse_fn("statement", close.p))
                    IN  closed(p_consume(condition.p, "RightParen", "Expect ')' after condition."))
            IN  parsed(parse_fn("expression", open.p))
    IN  opened(p_consume(self, "LeftParen", "Expect '(' after 'while'."))

\* for_statement (96-102): the initializer clause, an Option<Stmt>.
for_initializer(self) ==
    LET matched(semi) ==
            IF ~semi.r.ok THEN semi
            ELSE IF semi.r.val THEN [p |-> semi.p, r |-> Ok(None)]
            ELSE
            LET var_matched(var) ==
                    IF ~var.r.ok THEN var
                    ELSE LET parsed(s) == IF ~s.r.ok THEN s ELSE [p |-> s.p, r |-> Ok(Some(s.r.val))]
                         IN  parsed(IF var.r.val THEN parse_fn("var_declaration", var.p)
                                    ELSE parse_fn("expression_statement", self))
            IN  var_matched(p_match_token(self, {"Var"}))
    IN  matched(p_match_token(self, {"Semicolon"}))

\* for_statement (104-108, 115-119): a clause that is absent when the
\* token that ends it comes next, an Option<Expr>.
for_clause(self, end_type) ==
    LET checked(c) ==
            IF ~c.r.ok THEN c
            ELSE IF c.r.val THEN [p |-> self, r |-> Ok(None)]
            ELSE LET parsed(expr) == IF ~expr.r.ok THEN expr ELSE [p |-> expr.p, r |-> Ok(Some(expr.r.val))]
                 IN  parsed(parse_fn("expression", self))
    IN  checked(p_check(self, end_type))

\* for_statement (126-140): the loop as a while statement in blocks.
for_desugar(initializer, condition, increment, body) ==
    LET with_increment(b) == IF increment # None THEN StmtBlock(<<b, StmtExpression(increment[1])>>) ELSE b
        with_condition(b) == IF condition # None THEN StmtBlock(<<StmtWhile(condition[1], b)>>) ELSE b
        with_initializer(b) == IF initializer # None THEN StmtBlock(<<initializer[1], b>>) ELSE b
    IN  with_initializer(with_condition(with_increment(body)))

\* for_statement (110-126), after the initializer and the condition.
for_rest(self, initializer, condition) ==
    LET consumed(semi) ==
            IF ~semi.r.ok THEN semi
            ELSE
            LET clause(increment) ==
                    IF ~increment.r.ok THEN increment
                    ELSE
                    LET closed(close) ==
                            IF ~close.r.ok THEN close
                            ELSE LET parsed(body) ==
                                         IF ~body.r.ok THEN body
                                         ELSE [p |-> body.p,
                                               r |-> Ok(for_desugar(initializer, condition,
                                                                    increment.r.val, body.r.val))]
                                 IN  parsed(parse_fn("statement", close.p))
                    IN  closed(p_consume(increment.p, "RightParen", "Expect ')' after for clauses."))
            IN  clause(for_clause(semi.p, "RightParen"))
    IN  consumed(p_consume(self, "Semicolon", "Expect ';' after loop condition."))

for_statement(self) ==
    LET opened(open) ==
            IF ~open.r.ok THEN open
            ELSE
            LET first(initializer) ==
                    IF ~initializer.r.ok THEN initializer
                    ELSE LET second(condition) ==
                                 IF ~condition.r.ok THEN condition
                                 ELSE for_rest(condition.p, initializer.r.val, condition.r.val)
                         IN  second(for_clause(initializer.p, "Semicolon"))
            IN  first(for_initializer(open.p))
    IN  opened(p_consume(self, "LeftParen", "Expect '(' after 'while'."))

\* statement (70-88): the match_token that succeeds among those tried in
\* turn (For, While, If, Print, LeftBrace) and the keyword it consumed, or
\* "" when none does.
statement_keyword(self) ==
    LET matched(m) ==
            IF ~m.r.ok THEN m
            ELSE IF ~m.r.val THEN [p |-> m.p, r |-> Ok("")]
            ELSE LET consumed(t) == IF ~t.r.ok THEN t ELSE [p |-> m.p, r |-> Ok(t.r.val.token_type)]
                 IN  consumed(p_previous(m.p))
    IN  matched(p_match_token(self, {"For", "While", "If", "Print", "LeftBrace"}))

statement(self) ==
    LET started(k) ==
            IF ~k.r.ok THEN k
            ELSE CASE k.r.val = "For" -> parse_fn("for_statement", k.p)
                   [] k.r.val = "While" -> parse_fn("while_statement", k.p)
                   [] k.r.val = "If" -> parse_fn("if_statement", k.p)
                   [] k.r.val = "Print" -> parse_fn("print_statement", k.p)
                   [] k.r.val = "LeftBrace" ->
                        LET parsed(b) == IF ~b.r.ok THEN b ELSE [p |-> b.p, r |-> Ok(StmtBlock(b.r.val))]
                        IN  parsed(parse_fn("block", k.p))
                   [] OTHER -> parse_fn("expression_statement", k.p)
    IN  started(statement_keyword(self))

\* var_declaration (57-60): the optional initializer, an Option<Expr>.
var_initializer(self) ==
    LET matched(m) ==
            IF ~m.r.ok THEN m
            ELSE IF ~m.r.val THEN [p |-> m.p, r |-> Ok(None)]
            ELSE LET parsed(expr) == IF ~expr.r.ok THEN expr ELSE [p |-> expr.p, r |-> Ok(Some(expr.r.val))]
                 IN  parsed(parse_fn("expression", m.p))
    IN  matched(p_match_token(self, {"Equal"}))

var_declaration(self) ==
    LET named(name) ==
            IF ~name.r.ok THEN name
            ELSE
            LET initialized(initializer) ==
                    IF ~initializer.r.ok THEN initializer
                    ELSE LET consumed(semi) ==
                                 IF ~semi.r.ok THEN semi
                                 ELSE [p |-> semi.p, r |-> Ok(StmtVar(name.r.val.lexeme, initializer.r.val))]
                         IN  consumed(p_consume(initializer.p, "Semicolon",
                                                "Expect ';' after variable declaration."))
            IN  initialized(var_initializer(name.p))
    IN  named(p_consume(self, "Identifier", "Expect variable name."))

\* declaration (32-52) returns an Option<Stmt>.
declaration(self) ==
    LET matched(m) ==
            IF ~m.r.ok THEN [p |-> m.p, r |-> None]
            ELSE LET parsed(s) ==
                         IF s.r.ok THEN [p |-> s.p, r |-> Some(s.r.val)]
                         ELSE IF s.p.status = "panic" THEN [p |-> s.p, r |-> None]
                         ELSE [p |-> synchronize(Report(s.p, s.r.err)), r |-> None]
                 IN  parsed(IF m.r.val THEN parse_fn("var_declaration", m.p)
                            ELSE parse_fn("statement", m.p))
    IN  matched(p_match_token(self, {"Var"}))

parse_fn(method, self) ==
    CASE method = "declaration" -> declaration(self)
      [] method = "var_declaration" -> var_declaration(self)
      [] method = "statement" -> statement(self)
      [] method = "for_statement" -> for_statement(self)
      [] method = "while_statement" -> while_statement(self)
      [] method = "if_statement" -> if_statement(self)
      [] method = "print_statement" -> print_statement(self)
      [] method = "block" -> block(self)
      [] method = "expression_statement" -> expression_statement(self)
      [] method = "expression" -> expression(self)
      [] method = "assignment" -> assignment(self)
      [] method = "or" -> or(self)
      [] method = "and" -> and(self)
      [] method = "equality" -> equality(self)
      [] method = "comparison" -> comparison(self)
      [] method = "term" -> term(self)
      [] method = "factor" -> factor(self)
      [] method = "unary" -> unary(self)
      [] method = "primary" -> primary(self)

\* The loop of parse (20-22).
RECURSIVE parse_loop(_, _)
parse_loop(self, statements) ==
    LET at(e) ==
            IF ~e.r.ok THEN [p |-> e.p, statements |-> statements]
            ELSE IF e.r.val THEN [p |-> self, statements |-> statements]
            ELSE LET declared(d) ==
                         IF d.p.status = "panic" THEN [p |-> d.p, statements |-> statements]
                         ELSE parse_loop(d.p, Append(statements, d.r))
                 IN  declared(parse_fn("declaration", self))
    IN  at(p_is_at_end(self))

\* Parser::parse (18-30): stmt.unwrap() panics on the None that a
\* declaration with an error left.
parse(self) ==
    LET looped(l) ==
            IF l.p.status = "panic" THEN l.p
            ELSE IF \E i \in DOMAIN l.statements : l.statements[i] = None THEN Unwound(l.p)
            ELSE [l.p EXCEPT !.status = "done",
                             !.statements = [i \in DOMAIN l.statements |-> l.statements[i][1]]]
    IN  looped(parse_loop(self, <<>>))

(***************************************************************************)
(* Bounds of the model.                                                    *)
(***************************************************************************)
MaxDepth == 3

EnvNames == {"a", "b"}

EnvValues == {EvF64(1), EvF64(2)}

EnvOptValues == {None} \cup {Some(v) : v \in EnvValues}

(***************************************************************************)
(* What the variables hold while a specification does not use them.        *)
(***************************************************************************)
RunNew == [n |-> 0, status |-> "running", stmt |-> None, res |-> Ok(None), before |-> EnvironmentNew, mark |-> 0, out |-> 0]

ScannerIdle == ScannerNew(<<>>)

ParserIdle == ParserNew(<<Token("EOF", " ", None, 1)>>)

EnvOpNew == [op |-> "new"]

(***************************************************************************)
(* SpecEnv: the Environment methods applied to a chain of scopes.  Scopes  *)
(* are entered and left as stmt_execute_block does it.                     *)
(***************************************************************************)
InitEnv ==
    /\ envir = EnvironmentNew
    /\ envOp = EnvOpNew
    /\ interpreter = InterpreterNew
    /\ run = RunNew
    /\ scanner = ScannerIdle
    /\ parser = ParserIdle

EnvDefine(name, value) ==
    /\ envir' = define(envir, name, value)
    /\ envOp' = [op |-> "define", name |-> name, value |-> value, before |-> envir, res |-> Ok(<<>>)]
    /\ UNCHANGED <<interpreter, run, scanner, parser>>

EnvGet(name) ==
    /\ envOp' = [op |-> "get", name |-> name, value |-> None, before |-> envir, res |-> get(envir, name)]
    /\ UNCHANGED <<envir, interpreter, run, scanner, parser>>

EnvAssign(name, value) ==
    LET r == assign(envir, name, value)
    IN  /\ envir' = r.env
        /\ envOp' = [op |-> "assign", name |-> name, value |-> Some(value), before |-> envir, res |-> r.res]
        /\ UNCHANGED <<interpreter, run, scanner, parser>>

\* stmt_execute_block, lines 365-367, entered with Environment::new()
EnvEnter ==
    /\ Depth(envir) < MaxDepth
    /\ envir' = [EnvironmentNew EXCEPT !.enclosing = Some(envir)]
    /\ envOp' = [op |-> "enter", name |-> "", value |-> None, before |-> envir, res |-> Ok(<<>>)]
    /\ UNCHANGED <<interpreter, run, scanner, parser>>

\* stmt_execute_block, line 379
EnvLeave ==
    /\ envir.enclosing # None
    /\ envir' = envir.enclosing[1]
    /\ envOp' = [op |-> "leave", name |-> "", value |-> None, before |-> envir, res |-> Ok(<<>>)]
    /\ UNCHANGED <<interpreter, run, scanner, parser>>

NextEnv ==
    \/ \E name \in EnvNames, value \in EnvOptValues : EnvDefine(name, value)
    \/ \E name \in EnvNames : EnvGet(name)
    \/ \E name \in EnvNames, value \in EnvValues : EnvAssign(name, value)
    \/ EnvEnter
    \/ EnvLeave

SpecEnv == InitEnv /\ [][NextEnv]_vars

(***************************************************************************)
(* Interpreter::interpret (274-280): the statements are executed in order  *)
(* and the first Err ends the run.  One step executes one top-level        *)
(* statement.  run keeps, of the last statement: the statement, its        *)
(* Result, the environment before it and the lengths of trace and stdout   *)
(* before it.                                                              *)
(***************************************************************************)
MaxSteps == 4

MaxFuel == 3

\* interpret without the `?` of line 277: the error of a statement is dropped.
interpret_ignoring_errors(stmt) ==
    /\ run.n < MaxSteps
    /\ LET s == stmt_evaluate(interpreter, stmt, MaxFuel)
       IN  /\ interpreter' = s.I
           /\ run' = [n      |-> run.n + 1,
                      status |-> IF s.r.ok THEN "running"
                                 ELSE IF s.r.err.kind = "exit" THEN "exited" ELSE "failed",
                      stmt   |-> Some(stmt),
                      res    |-> s.r,
                      before |-> interpreter.environment,
                      mark   |-> Len(interpreter.trace),
                      out    |-> Len(interpreter.stdout)]
    /\ UNCHANGED <<envir, envOp, scanner, parser>>

interpret(stmt) ==
    /\ run.status = "running"
    /\ run.n < MaxSteps
    /\ LET s == stmt_evaluate(interpreter, stmt, MaxFuel)
       IN  /\ interpreter' = s.I
           /\ run' = [n      |-> run.n + 1,
                      status |-> IF s.r.ok THEN "running"
                                 ELSE IF s.r.err.kind = "exit" THEN "exited" ELSE "failed",
                      stmt   |-> Some(stmt),
                      res    |-> s.r,
                      before |-> interpreter.environment,
                      mark   |-> Len(interpreter.trace),
                      out    |-> Len(interpreter.stdout)]
    /\ UNCHANGED <<envir, envOp, scanner, parser>>

InitInterpreter ==
    /\ envir = EnvironmentNew
    /\ envOp = EnvOpNew
    /\ interpreter = InterpreterNew
    /\ run = RunNew
    /\ scanner = ScannerIdle
    /\ parser = ParserIdle

\* Source text -> AST shorthands used to write the programs below.
Num(n) == ExprLiteral(LitF64(n))

CallStmt(name, arguments) == StmtExpression(ExprCall(ExprVar(name), arguments))

PrintCall(name) == StmtPrint(ExprCall(ExprVar(name), <<>>))

AssignStmt(name, expr) == StmtExpression(ExprAssign(name, expr))

(***************************************************************************)
(* SpecClosure: programs about functions and the variables they capture.   *)
(* `i` is declared at top level only, `y` in local scopes only.            *)
(*   var i = 0;                                                            *)
(*   fun inc() { i = i + 1; return i; }                                    *)
(*   fun peek() { print i; }                                               *)
(*   fun h() { print y; }                                                  *)
(*   print inc();   { print inc(); }   var g = inc;   print g();           *)
(*   i = 5;   print i;   peek();   { var y = 5; h(); }                     *)
(***************************************************************************)
VarI == StmtVar("i", Some(Num(0)))

FunInc == StmtFunction("inc", <<>>, <<AssignStmt("i", ExprBinary(ExprVar("i"), "Plus", Num(1))), StmtReturn(Some(ExprVar("i")))>>)

FunPeek == StmtFunction("peek", <<>>, <<StmtPrint(ExprVar("i"))>>)

FunH == StmtFunction("h", <<>>, <<StmtPrint(ExprVar("y"))>>)

BlockCallH == StmtBlock(<<StmtVar("y", Some(Num(5))), CallStmt("h", <<>>)>>)

ClosureStatements ==
    { VarI, FunInc, FunPeek, FunH,
      PrintCall("inc"), StmtBlock(<<PrintCall("inc")>>),
      StmtVar("g", Some(ExprVar("inc"))), PrintCall("g"),
      AssignStmt("i", Num(5)), StmtPrint(ExprVar("i")), CallStmt("peek", <<>>),
      BlockCallH }

NextClosure == \E stmt \in ClosureStatements : interpret(stmt)

SpecClosure == InitInterpreter /\ [][NextClosure]_vars

\* No program of the model runs out of fuel.
FuelSuffices == run.res.ok \/ run.res.err.kind # "OutOfFuel"

(***************************************************************************)
(* Reading the trace.                                                      *)
(***************************************************************************)
Trace == interpreter.trace

IsReturnOf(k, fn) == Trace[k].ev = "return" /\ Trace[k].fn = fn

IsCallOf(k, fn) == Trace[k].ev = "call" /\ Trace[k].fn = fn

Sets(k, name) == Trace[k].ev \in {"write", "define"} /\ Trace[k].name = name

IsRead(k, name) == Trace[k].ev = "read" /\ Trace[k].name = name

\* The event at which the call that returns at q began (no recursion here).
CallOfReturn(q, fn) == CHOOSE c \in 1..q : IsCallOf(c, fn) /\ \A d \in (c + 1)..q : ~IsCallOf(d, fn)

\* Is event k inside a call of fn that has not returned yet?
InsideCall(k, fn) ==
    Cardinality({c \in 1..k : IsCallOf(c, fn)}) > Cardinality({c \in 1..k : IsReturnOf(c, fn)})

(***************************************************************************)
(* C1: two successive calls of the counter function inc (from the top      *)
(* level, from inside a block, through the name inc or the name g) return  *)
(* strictly increasing numbers, as long as nothing but inc itself sets i   *)
(* and neither i nor inc is declared again between them.                   *)
(***************************************************************************)
C1_SuccessiveCallsIncrease ==
    \A p, q \in DOMAIN Trace :
        ( /\ p < q
          /\ IsReturnOf(p, "inc") /\ IsReturnOf(q, "inc")
          /\ \A k \in (p + 1)..(q - 1) : ~IsReturnOf(k, "inc") /\ ~Sets(k, "inc")
          /\ \A k \in (p + 1)..CallOfReturn(q, "inc") : ~Sets(k, "i") )
        => /\ Trace[p].val # None /\ Trace[q].val # None
           /\ Trace[p].val[1].t = "f64" /\ Trace[q].val[1].t = "f64"
           /\ Trace[q].val[1].n > Trace[p].val[1].n

(***************************************************************************)
(* C2: i has one binding, shared by the top level and by every function    *)
(* declared there: a read of i, wherever it is made, returns the value     *)
(* that the latest assignment or declaration of i gave it.                 *)
(***************************************************************************)
C2_ReadsSeeLatestAssignment ==
    \A q \in DOMAIN Trace :
        IsRead(q, "i") =>
            \A w \in 1..(q - 1) :
                (Sets(w, "i") /\ \A k \in (w + 1)..(q - 1) : ~Sets(k, "i"))
                => Trace[w].val = Some(Trace[q].val)

(***************************************************************************)
(* C3: y is bound only in the caller's local scope, so the body of h,      *)
(* which runs in an environment enclosed by the one h captured, cannot     *)
(* read it: no read of y succeeds inside a call of h, and the statement    *)
(* that called h fails as an undefined variable.                           *)
(***************************************************************************)
IsUndefinedVariableError(r, name) ==
    /\ ~r.ok
    /\ \/ r.err.kind = "UndefinedVariable" /\ r.err.lexeme = name
       \/ r.err.kind = "RuntimeError" /\ r.err.err.fmt = "Undefined variable '{}' of token '{:#?}'." /\ r.err.err.with[1] = name

C3_CalleeCannotReadCallerLocal ==
    /\ \A q \in DOMAIN Trace : IsRead(q, "y") => ~InsideCall(q, "h")
    /\ (run.stmt = Some(BlockCallH) /\ \E k \in (run.mark + 1)..Len(Trace) : IsCallOf(k, "h"))
       => IsUndefinedVariableError(run.res, "y")

(***************************************************************************)
(* SpecScope: programs about blocks and the variables declared in them.    *)
(*   var x = 1;   print x;   print z;   { x = 5; }                         *)
(*   { var x = 2; print x; }   { var z = 3; print z; }                     *)
(*   { var x; print x; }   { var x = 2; x = 7; print x; }                  *)
(*   { var x = 2; { var x = 3; print x; } print x; }                       *)
(***************************************************************************)
VarPrint(name, initializer) == StmtBlock(<<StmtVar(name, initializer), StmtPrint(ExprVar(name))>>)

ScopeStatements ==
    { StmtVar("x", Some(Num(1))), StmtPrint(ExprVar("x")), StmtPrint(ExprVar("z")),
      StmtBlock(<<AssignStmt("x", Num(5))>>),
      VarPrint("x", Some(Num(2))), VarPrint("z", Some(Num(3))), VarPrint("x", None),
      StmtBlock(<<StmtVar("x", Some(Num(2))), AssignStmt("x", Num(7)), StmtPrint(ExprVar("x"))>>),
      StmtBlock(<<StmtVar("x", Some(Num(2))), VarPrint("x", Some(Num(3))), StmtPrint(ExprVar("x"))>>) }

NextScope == \E stmt \in ScopeStatements : interpret(stmt)

SpecScope == InitInterpreter /\ [][NextScope]_vars

(***************************************************************************)
(* Block scoping as C4 states it, for the statements above: a stack of     *)
(* scopes, innermost first.  `var` declares in the innermost scope; a      *)
(* name refers to the innermost scope that declares it; a block's scope    *)
(* is dropped when the block exits.  Reading a name that no scope          *)
(* declares, or whose nearest declaration gave it no value, is an error.   *)
(***************************************************************************)
ScopeOf(stack, name) ==
    IF \E j \in DOMAIN stack : name \in DOMAIN stack[j]
    THEN CHOOSE j \in DOMAIN stack : name \in DOMAIN stack[j] /\ \A k \in 1..(j - 1) : name \notin DOMAIN stack[k]
    ELSE 0

RECURSIVE Scoped(_, _)
RECURSIVE ScopedAll(_, _, _)
Scoped(st, stmt) ==
    IF ~st.ok THEN st
    ELSE CASE stmt.t = "Var" ->
                [st EXCEPT !.stack[1] = MapInsert(@, stmt.name,
                    IF stmt.initializer = None THEN None ELSE Some(FromLiteral(stmt.initializer[1].literal)))]
           [] stmt.t = "Expression" ->
                LET j == ScopeOf(st.stack, stmt.expr.name)
                IN  IF j = 0 THEN [st EXCEPT !.ok = FALSE]
                    ELSE [st EXCEPT !.stack[j] = MapInsert(@, stmt.expr.name, Some(FromLiteral(stmt.expr.value.literal)))]
           [] stmt.t = "Print" ->
                LET j == ScopeOf(st.stack, stmt.expr.name)
                IN  IF j = 0 \/ st.stack[j][stmt.expr.name] = None THEN [st EXCEPT !.ok = FALSE]
                    ELSE [st EXCEPT !.out = Append(@, Display(st.stack[j][stmt.expr.name][1]))]
           [] stmt.t = "Block" ->
                LET b == ScopedAll([st EXCEPT !.stack = <<EmptyMap>> \o @], stmt.statements, 1)
                IN  IF ~b.ok THEN b ELSE [b EXCEPT !.stack = Tail(@)]

ScopedAll(st, statements, k) ==
    IF k > Len(statements) THEN st ELSE ScopedAll(Scoped(st, statements[k]), statements, k + 1)

Printed == SubSeq(interpreter.stdout, run.out + 1, Len(interpreter.stdout))

(***************************************************************************)
(* C4: a `var` declared in a block shadows the same name of an enclosing   *)
(* scope for the block only: every statement prints what block scoping     *)
(* says (reads after the inner declaration see the inner variable), and    *)
(* after it the top level holds its own names only, with the values that   *)
(* assignments to them gave.                                               *)
(***************************************************************************)
C4_BlockShadowing ==
    (run.stmt # None /\ run.before.enclosing = None) =>
        LET ref == Scoped([stack |-> <<run.before.env>>, out |-> <<>>, ok |-> TRUE], run.stmt[1])
        IN  /\ run.res.ok = ref.ok
            /\ ref.ok => /\ Printed = ref.out
                         /\ interpreter.environment = [env |-> ref.stack[1], enclosing |-> None]

(***************************************************************************)
(* SpecCall: programs that call functions with the right and the wrong     *)
(* number of arguments.                                                    *)
(*   var x = 1;   print x;                                                 *)
(*   fun p(a) { x = a; return a; }   fun q() { x = 9; }                    *)
(*   p();  p(2);  p(2, 3);  q();  q(2);  x(2);                             *)
(***************************************************************************)
FunP == StmtFunction("p", <<"a">>, <<AssignStmt("x", ExprVar("a")), StmtReturn(Some(ExprVar("a")))>>)

FunQ == StmtFunction("q", <<>>, <<AssignStmt("x", Num(9))>>)

CallStatements ==
    { StmtVar("x", Some(Num(1))), StmtPrint(ExprVar("x")), FunP, FunQ,
      CallStmt("p", <<>>), CallStmt("p", <<Num(2)>>), CallStmt("p", <<Num(2), Num(3)>>),
      CallStmt("q", <<>>), CallStmt("q", <<Num(2)>>), CallStmt("x", <<Num(2)>>) }

NextCall == \E stmt \in CallStatements : interpret(stmt)

SpecCall == InitInterpreter /\ [][NextCall]_vars

\* The last statement was a call of a callable bound at top level.
LastCalled ==
    IF run.stmt # None /\ run.stmt[1].t = "Expression" /\ run.stmt[1].expr.t = "Call"
    THEN LET name == run.stmt[1].expr.callee.name
         IN  IF name \in DOMAIN run.before.env /\ run.before.env[name] # None /\ run.before.env[name][1].t = "callable"
             THEN Some([function |-> run.before.env[name][1], nargs |-> Len(run.stmt[1].expr.arguments)])
             ELSE None
    ELSE None

SeqRange(s) == {s[k] : k \in DOMAIN s}

(***************************************************************************)
(* C8: a call with M arguments of a callable of declared arity N # M fails *)
(* with a RuntimeError whose message holds N and M, and the body is not    *)
(* executed: the call is not entered, nothing is printed and no binding    *)
(* is defined or changed.                                                  *)
(***************************************************************************)
C8_ArityMismatchFails ==
    (LastCalled # None /\ Len(LastCalled[1].function.declaration.params) # LastCalled[1].nargs) =>
        /\ ~run.res.ok
        /\ run.res.err.kind = "RuntimeError"
        /\ Len(LastCalled[1].function.declaration.params) \in SeqRange(run.res.err.err.with)
        /\ LastCalled[1].nargs \in SeqRange(run.res.err.err.with)
        /\ \A k \in (run.mark + 1)..Len(Trace) : Trace[k].ev # "call"
        /\ Printed = <<>>
        /\ interpreter.environment = run.before

C8_Witness ==
    /\ LastCalled # None
    /\ LastCalled[1].function.fn_name = "p"
    /\ LastCalled[1].nargs = 2
    /\ "x" \in DOMAIN run.before.env
    /\ run.status = "failed"

(***************************************************************************)
(* Reading a chain scope by scope, for the claims about Environment.       *)
(***************************************************************************)
\* The nearest scope (1 is the innermost) that satisfies Has, or 0.
Nearest(scopes, Has(_)) ==
    IF \E j \in DOMAIN scopes : Has(scopes[j])
    THEN CHOOSE j \in DOMAIN scopes : Has(scopes[j]) /\ \A k \in 1..(j - 1) : ~Has(scopes[k])
    ELSE 0

(***************************************************************************)
(* C5: get returns the value of the nearest scope, searching outward from  *)
(* the innermost, that binds the name to a value; when no scope does, it   *)
(* fails with the error kind UndefinedVariable.                            *)
(***************************************************************************)
C5_GetNearestOrUndefinedVariable ==
    envOp.op = "get" =>
        LET scopes == Scopes(envOp.before)
            Binds(m) == envOp.name \in DOMAIN m /\ m[envOp.name] # None
            k == Nearest(scopes, Binds)
        IN  IF k = 0
            THEN ~envOp.res.ok /\ envOp.res.err.kind = "UndefinedVariable"
            ELSE envOp.res = Ok(scopes[k][envOp.name][1])

(***************************************************************************)
(* C6: assign changes exactly one binding, that of the nearest scope that  *)
(* already defines the name, and leaves every other binding of every scope *)
(* as it was; when no scope defines the name it fails with                 *)
(* UndefinedVariable and the chain is unchanged.                           *)
(***************************************************************************)
C6_AssignNearestOnly ==
    envOp.op = "assign" =>
        LET before == Scopes(envOp.before)
            after == Scopes(envir)
            Defines(m) == envOp.name \in DOMAIN m
            k == Nearest(before, Defines)
        IN  IF k = 0
            THEN /\ envOp.res = Err(UndefinedVariable(envOp.name))
                 /\ envir = envOp.before
            ELSE /\ envOp.res.ok
                 /\ Len(after) = Len(before)
                 /\ \A j \in DOMAIN before :
                        /\ DOMAIN after[j] = DOMAIN before[j]
                        /\ \A n \in DOMAIN before[j] :
                               after[j][n] = IF j = k /\ n = envOp.name THEN envOp.value ELSE before[j][n]

\* An assignment that went past the innermost scope to change the middle
\* one of three, while the outermost scope defines the name too.
C6_Witness ==
    /\ envOp.op = "assign"
    /\ envOp.res.ok
    /\ Depth(envOp.before) = 3
    /\ LET before == Scopes(envOp.before)
       IN  /\ envOp.name \notin DOMAIN before[1]
           /\ DOMAIN before[1] # {}
           /\ envOp.name \in DOMAIN before[2]
           /\ envOp.name \in DOMAIN before[3]
           /\ before[2][envOp.name] # envOp.value


(***************************************************************************)
(* SpecScan: Scanner::new(source) for every source of at most MaxLen       *)
(* characters of ScanChars, then scan_tokens.                              *)
(***************************************************************************)
MaxLen == 4

ScanChars == {";", "=", "/", "\n", "\"", "f", "o", "r", "1", "2", ".", "@"}

RECURSIVE SeqsUpTo(_, _)
SeqsUpTo(S, n) ==
    IF n = 0 THEN {<<>>}
    ELSE LET shorter == SeqsUpTo(S, n - 1)
         IN  shorter \cup {Append(s, c) : s \in shorter, c \in S}

InitScan ==
    /\ envir = EnvironmentNew
    /\ envOp = EnvOpNew
    /\ interpreter = InterpreterNew
    /\ run = RunNew
    /\ scanner \in {ScannerNew(source) : source \in SeqsUpTo(ScanChars, MaxLen)}
    /\ parser = ParserIdle

ScanTokens ==
    /\ scanner.status = "new"
    /\ scanner' = scan_tokens(scanner)
    /\ UNCHANGED <<envir, envOp, interpreter, run, parser>>

NextScan == ScanTokens

SpecScan == InitScan /\ [][NextScan]_vars

\* The characters _scan_tokens has an arm for (the others end in exit(11)).
Accepted(c) ==
    \/ c \in DOMAIN SingleCharToken \cup DOMAIN OneOrTwoCharToken
    \/ c \in {"/", " ", "\r", "\t", "\n", "\""}
    \/ is_alphanumeric(c)

(***************************************************************************)
(* C10: for every source made only of characters the scanner accepts (the  *)
(* empty source included), scan_tokens returns, never reading past the     *)
(* end of the source, and the tokens end with the one EOF token.           *)
(***************************************************************************)
C10_ScanEndsWithOneEOF ==
    (/\ scanner.status # "new"
     /\ \A i \in DOMAIN scanner.source : Accepted(scanner.source[i])) =>
        /\ scanner.status = "done"
        /\ scanner.tokens # <<>>
        /\ \A i \in DOMAIN scanner.tokens :
              (scanner.tokens[i].token_type = "EOF") <=> (i = Len(scanner.tokens))

(***************************************************************************)
(* SpecParse: Parser::new(tokens) for every sequence of at most MaxTokens  *)
(* tokens of ParseTokens and for the programs listed below, each ended by  *)
(* the EOF token; parse; then Interpreter::interpret on the statements     *)
(* that parse returned, one statement a step.                              *)
(***************************************************************************)
MaxTokens == 4

\* A token of the given type with the lexeme and the literal the source
\* text of the programs below gives it.
Lexemes(token_type) ==
    CASE token_type = "Identifier" -> "y"
      [] token_type = "Number" -> "2"
      [] token_type = "EOF" -> " "
      [] token_type = "Print" -> "print"
      [] token_type = "Semicolon" -> ";"
      [] token_type = "True" -> "true"
      [] token_type = "False" -> "false"
      [] token_type = "And" -> "and"
      [] token_type = "Or" -> "or"
      [] token_type = "Var" -> "var"
      [] token_type = "Equal" -> "="
      [] token_type = "LeftBrace" -> "{"
      [] token_type = "RightBrace" -> "}"
      [] token_type = "LeftParen" -> "("
      [] token_type = "RightParen" -> ")"
      [] token_type = "If" -> "if"
      [] token_type = "Else" -> "else"
      [] token_type = "While" -> "while"
      [] token_type = "For" -> "for"
      [] token_type = "Return" -> "return"
      [] token_type = "Minus" -> "-"
      [] token_type = "Plus" -> "+"
      [] token_type = "Star" -> "*"
      [] token_type = "Less" -> "<"
      [] token_type = "Bang" -> "!"
      [] token_type = "BangEqual" -> "!="
      [] token_type = "EqualEqual" -> "=="
      [] token_type = "Slash" -> "/"
      [] token_type = "Nil" -> "nil"

Tok(token_type) ==
    Token(token_type, Lexemes(token_type), IF token_type = "Number" THEN Some(LitF64(2)) ELSE None, 1)

Toks(types) == [i \in DOMAIN types |-> Tok(types[i])]

TokenTypes(tokens) == [i \in DOMAIN tokens |-> tokens[i].token_type]

ParseTokens == {"Print", "Semicolon", "True", "False", "And", "Or", "Identifier", "Var", "Equal"}

\*   { print true; }
\*   if (true) print 2; else print false;
\*   while (false) y = true;
\*   for (var y = true; y; y = false) print y;
\*   for (;;) print -2 * (2 + 2) < 2;
\*   print return;   true true; print true;   var = ; var y;
Programs ==
    { <<"LeftBrace", "Print", "True", "Semicolon", "RightBrace">>,
      <<"If", "LeftParen", "True", "RightParen", "Print", "Number", "Semicolon",
        "Else", "Print", "False", "Semicolon">>,
      <<"While", "LeftParen", "False", "RightParen", "Identifier", "Equal", "True", "Semicolon">>,
      <<"For", "LeftParen", "Var", "Identifier", "Equal", "True", "Semicolon", "Identifier", "Semicolon",
        "Identifier", "Equal", "False", "RightParen", "Print", "Identifier", "Semicolon">>,
      <<"For", "LeftParen", "Semicolon", "Semicolon", "RightParen", "Print", "Minus", "Number", "Star",
        "LeftParen", "Number", "Plus", "Number", "RightParen", "Less", "Number", "Semicolon">>,
      <<"Print", "Return", "Semicolon">>,
      <<"True", "True", "Semicolon", "Print", "True", "Semicolon">>,
      <<"Var", "Equal", "Semicolon", "Var", "Identifier", "Semicolon">> }

\* Declarations with a syntax error, each ending at its semicolon:
\*   print ;     var ;     ;     true true ;
BadDeclarations ==
    { <<"Print", "Semicolon">>, <<"Var", "Semicolon">>, <<"Semicolon">>, <<"True", "True", "Semicolon">> }

\*   print true;     var y;     y = true;
GoodDeclarations ==
    { <<"Print", "True", "Semicolon">>, <<"Var", "Identifier", "Semicolon">>,
      <<"Identifier", "Equal", "True", "Semicolon">> }

\* `L and R;` and `print L and R;` with L false, `L or R;` and
\* `print L or R;` with L true; R is true, false or the undeclared y.
ShortCircuitSources(operator) ==
    LET L == IF operator = "And" THEN "False" ELSE "True"
    IN  UNION {{<<L, operator, R, "Semicolon">>, <<"Print", L, operator, R, "Semicolon">>} :
                  R \in {"True", "False", "Identifier"}}

\* A declaration with a syntax error followed by a valid one.
ErrorSources == {bad \o good : bad \in BadDeclarations, good \in GoodDeclarations}

\* `print L op R;` with op one of == != ! and L, R operands of the
\* comparison level:  2   true   y   2 < 2
EqualityOperands == {<<"Number">>, <<"True">>, <<"Identifier">>, <<"Number", "Less", "Number">>}

EqualitySource(l, op, r) == <<"Print">> \o l \o <<op>> \o r \o <<"Semicolon">>

EqualitySources ==
    {EqualitySource(l, op, r) : l \in EqualityOperands, op \in {"EqualEqual", "BangEqual", "Bang"}, r \in EqualityOperands}

\* `for (init cond; incr) body`, alone or after `var y = true;`, with
\*   init:  ;   var y = true;   y = true;
\*   cond:  (omitted)   y   false
\*   incr:  (omitted)   y = false
\*   body:  print y;    { print true; y = false; }
ForParts ==
    [init : {<<>>, <<"Var", "Identifier", "Equal", "True", "Semicolon">>, <<"Identifier", "Equal", "True", "Semicolon">>},
     cond : {<<>>, <<"Identifier">>, <<"False">>},
     incr : {<<>>, <<"Identifier", "Equal", "False">>},
     body : {<<"Print", "Identifier", "Semicolon">>,
             <<"LeftBrace", "Print", "True", "Semicolon", "Identifier", "Equal", "False", "Semicolon", "RightBrace">>}]

Preludes == {<<>>, <<"Var", "Identifier", "Equal", "True", "Semicolon">>}

ForSource(f) ==
    <<"For", "LeftParen">> \o (IF f.init = <<>> THEN <<"Semicolon">> ELSE f.init) \o f.cond \o <<"Semicolon">>
        \o f.incr \o <<"RightParen">> \o f.body

ForSources == {prelude \o ForSource(f) : prelude \in Preludes, f \in ForParts}

\* A `(` that no `)` closes:
\*   print (true;   (y;   print (y + 2;   print ((true);   y = (false;
UnclosedSources ==
    { <<"Print", "LeftParen", "True", "Semicolon">>,
      <<"LeftParen", "Identifier", "Semicolon">>,
      <<"Print", "LeftParen", "Identifier", "Plus", "Number", "Semicolon">>,
      <<"Print", "LeftParen", "LeftParen", "True", "RightParen", "Semicolon">>,
      <<"Identifier", "Equal", "LeftParen", "False", "Semicolon">> }

\*   print (true);   print ((true));
ClosedSources ==
    { <<"Print", "LeftParen", "True", "RightParen", "Semicolon">>,
      <<"Print", "LeftParen", "LeftParen", "True", "RightParen", "RightParen", "Semicolon">> }

\* Tokens with an EOF before the last one:
\*   EOF print true;   print EOF true;   print true EOF;   (true EOF)   var EOF y
EarlyEOFSources ==
    { <<"EOF", "Print", "True", "Semicolon">>,
      <<"Print", "EOF", "True", "Semicolon">>,
      <<"Print", "True", "EOF", "Semicolon">>,
      <<"LeftParen", "True", "EOF", "RightParen">>,
      <<"Var", "EOF", "Identifier">> }

InitParse ==
    /\ envir = EnvironmentNew
    /\ envOp = EnvOpNew
    /\ interpreter = InterpreterNew
    /\ run = RunNew
    /\ scanner = ScannerIdle
    /\ parser \in {ParserNew(Toks(types \o <<"EOF">>)) : types \in SeqsUpTo(ParseTokens, MaxTokens) \cup Programs
                                  \cup ShortCircuitSources("And") \cup ShortCircuitSources("Or")
                                  \cup ErrorSources \cup EqualitySources \cup ForSources
                                  \cup UnclosedSources \cup ClosedSources \cup EarlyEOFSources}

Parse ==
    /\ parser.status = "new"
    /\ parser' = parse(parser)
    /\ UNCHANGED <<envir, envOp, interpreter, run, scanner>>

\* interpret (274-280) stops at the first statement that fails.
InterpretParsed ==
    /\ parser.status = "done"
    /\ run.n < Len(parser.statements)
    /\ interpret(parser.statements[run.n + 1])

NextParse == Parse \/ InterpretParsed

SpecParse == InitParse /\ [][NextParse]_vars

(***************************************************************************)
(* C7: for `L and R` with L false and `L or R` with L true, parsing and    *)
(* then evaluating the statement raises no error, does not evaluate R (no  *)
(* variable is read) and yields L (what print writes).                     *)
(***************************************************************************)
C7_ShortCircuit ==
    \A operator \in {"And", "Or"} :
        TokenTypes(parser.tokens) \in {types \o <<"EOF">> : types \in ShortCircuitSources(operator)} =>
            /\ parser.status \in {"new", "done"}
            /\ run.n = 1 =>
                  /\ run.res.ok
                  /\ \A k \in DOMAIN interpreter.trace : interpreter.trace[k].ev # "read"
                  /\ parser.tokens[1].token_type = "Print" =>
                        interpreter.stdout = <<IF operator = "And" THEN "false" ELSE "true">>

(***************************************************************************)
(* C9: when one declaration with a syntax error is followed by a valid     *)
(* declaration, parse does not crash: it returns, having reported one      *)
(* error, the statement of the valid declaration (what parsing that        *)
(* declaration alone returns).                                             *)
(***************************************************************************)
C9_ParseRecovers ==
    \A bad \in BadDeclarations, good \in GoodDeclarations :
        (parser.status # "new" /\ TokenTypes(parser.tokens) = bad \o good \o <<"EOF">>) =>
            /\ parser.status = "done"
            /\ Len(parser.reported) = 1
            /\ parser.statements = parse(ParserNew(Toks(good \o <<"EOF">>))).statements

(***************************************************************************)
(* C11: once a top-level statement has failed with a runtime error, that   *)
(* error is what interpret returns and no later statement is executed:     *)
(* from then on nothing is printed, no binding changes and the result      *)
(* stays the error of the failing statement.                               *)
(***************************************************************************)
C11_ErrorEndsInterpret ==
    [][ /\ (~run.res.ok) => (interpreter' = interpreter /\ run' = run)
        /\ (~run'.res.ok) => (run'.status = "failed" /\ run'.res.err.kind # "OutOfFuel") ]_vars

\* A statement failed while more statements could still have been run, and
\* statements before it had printed and defined.
C11_Witness ==
    /\ run.status = "failed"
    /\ ~run.res.ok
    /\ run.n < MaxSteps
    /\ interpreter.stdout # <<>>
    /\ "x" \in DOMAIN interpreter.environment.env \/ interpreter.environment.enclosing # None

(***************************************************************************)
(* SpecReturn: functions whose body reaches a `return`, with a value and   *)
(* without one, directly and nested in blocks, ifs and whiles, with        *)
(* statements after it at every level; R is `return;` or `return 7;`.      *)
(*   flat:   R print 1;                                                    *)
(*   block:  { R print 1; } print 2;                                       *)
(*   if:     if (true) R print 2;                                          *)
(*   while:  while (true) { R print 1; } print 2;                          *)
(*   deep:   { if (false) print 1; else while (true) { R print 2; }        *)
(*             print 3; } print 4;                                         *)
(* and `print f();` for each of these functions f.                         *)
(***************************************************************************)
ReturnKinds == {"flat", "block", "if", "while", "deep"}

ReturnStmts == {StmtReturn(None), StmtReturn(Some(Num(7)))}

PrintNum(n) == StmtPrint(Num(n))

ReturnBody(kind, ret) ==
    CASE kind = "flat" -> <<ret, PrintNum(1)>>
      [] kind = "block" -> <<StmtBlock(<<ret, PrintNum(1)>>), PrintNum(2)>>
      [] kind = "if" -> <<StmtIf(ExprLiteral(LitBool(TRUE)), ret, None), PrintNum(2)>>
      [] kind = "while" -> <<StmtWhile(ExprLiteral(LitBool(TRUE)), StmtBlock(<<ret, PrintNum(1)>>)), PrintNum(2)>>
      [] kind = "deep" ->
            <<StmtBlock(<<StmtIf(ExprLiteral(LitBool(FALSE)), PrintNum(1),
                                 Some(StmtWhile(ExprLiteral(LitBool(TRUE)), StmtBlock(<<ret, PrintNum(2)>>)))),
                          PrintNum(3)>>),
              PrintNum(4)>>

FnName(kind, ret) == kind \o (IF ret.value = None THEN "" ELSE "7")

ReturnStatements ==
    {StmtFunction(FnName(kind, ret), <<>>, ReturnBody(kind, ret)) : kind \in ReturnKinds, ret \in ReturnStmts}
    \cup {PrintCall(FnName(kind, ret)) : kind \in ReturnKinds, ret \in ReturnStmts}

NextReturn == \E stmt \in ReturnStatements : interpret(stmt)

SpecReturn == InitInterpreter /\ [][NextReturn]_vars

(***************************************************************************)
(* C12: a call of one of these functions executes nothing after the        *)
(* return (none of the prints that follow it, at any level, happens) and   *)
(* yields the returned value, Nil for `return;`: `print f();` succeeds and *)
(* prints, after the line every call writes, that value only.              *)
(***************************************************************************)
C12_ReturnEndsCall ==
    \A kind \in ReturnKinds, ret \in ReturnStmts :
        (run.stmt = Some(PrintCall(FnName(kind, ret))) /\ get(run.before, FnName(kind, ret)).ok) =>
            /\ run.res.ok
            /\ Printed = <<"----------------", IF ret.value = None THEN "nil" ELSE "7.00">>

(***************************************************************************)
(* SpecCond: `if` and `while` statements whose condition is a Boolean or   *)
(* is not one.                                                             *)
(*   fun f() {}   var c = true;                                            *)
(*   if (E) print 1; else print 2;     while (E) print 1;                  *)
(*       for E in  1  "s"  nil  f  false                                   *)
(*   if (true) print 1; else print 2;  while (c) { print 1; c = false; }   *)
(***************************************************************************)
FunF == StmtFunction("f", <<>>, <<>>)

VarC == StmtVar("c", Some(ExprLiteral(LitBool(TRUE))))

Conditions == {Num(1), ExprLiteral(LitString("s")), ExprLiteral(LitNil), ExprVar("f"), ExprLiteral(LitBool(FALSE))}

CondStatements ==
    {FunF, VarC}
    \cup {StmtIf(E, PrintNum(1), Some(PrintNum(2))) : E \in Conditions \cup {ExprLiteral(LitBool(TRUE))}}
    \cup {StmtWhile(E, PrintNum(1)) : E \in Conditions}
    \cup {StmtWhile(ExprVar("c"), StmtBlock(<<PrintNum(1), AssignStmt("c", ExprLiteral(LitBool(FALSE)))>>))}

NextCond == \E stmt \in CondStatements : interpret(stmt)

SpecCond == InitInterpreter /\ [][NextCond]_vars

\* What the condition of the last statement evaluated to.
LastCondition == evaluate([interpreter EXCEPT !.environment = run.before], run.stmt[1].condition, MaxFuel).r

(***************************************************************************)
(* C13: an `if` or a `while` whose condition evaluates to a value that is  *)
(* not a Boolean fails with an evaluation error; it is not executed as if  *)
(* the condition were false (else branch taken, loop ended).               *)
(***************************************************************************)
C13_NonBooleanConditionFails ==
    (/\ run.stmt # None
     /\ run.stmt[1].t \in {"If", "While"}
     /\ LastCondition.ok
     /\ LastCondition.val.t # "bool") =>
        /\ ~run.res.ok
        /\ run.res.err.kind \notin {"OutOfFuel", "exit"}
        /\ Printed = <<>>

(***************************************************************************)
(* SpecUnary: evaluate_unary applied to every operand value of Operands    *)
(* and every operator of UnaryOperators.                                   *)
(***************************************************************************)
MaxNum == 2

Operands ==
    {EvF64(n) : n \in (0 - MaxNum)..MaxNum} \cup {EvBool(TRUE), EvBool(FALSE), EvNil}
    \cup {EvString(""), EvString("s")} \cup {NativeFunction("clock")}

UnaryOperators == {"Minus", "Bang", "Plus", "Star", "Slash", "BangEqual", "EqualEqual", "Less", "And", "Or"}

InitUnary ==
    /\ envir = EnvironmentNew
    /\ envOp \in {[op |-> "new", right |-> right, operator_type |-> operator_type] :
                     right \in Operands, operator_type \in UnaryOperators}
    /\ interpreter = InterpreterNew
    /\ run = RunNew
    /\ scanner = ScannerIdle
    /\ parser = ParserIdle

EvaluateUnary ==
    /\ envOp.op = "new"
    /\ envOp' = [op |-> "evaluate_unary", right |-> envOp.right, operator_type |-> envOp.operator_type,
                 res |-> evaluate_unary(envOp.right, envOp.operator_type)]
    /\ UNCHANGED <<envir, interpreter, run, scanner, parser>>

NextUnary == EvaluateUnary

SpecUnary == InitUnary /\ [][NextUnary]_vars

(***************************************************************************)
(* C14: evaluate_unary gives the negation for `-` on a Number, the inverse *)
(* for `!` on a Boolean, Boolean true for `!` on Nil, and the error        *)
(* EvaluateUnaryFail for every other operator and operand.                 *)
(***************************************************************************)
C14_UnaryTable ==
    envOp.op = "evaluate_unary" =>
        LET right == envOp.right
            operator_type == envOp.operator_type
        IN  envOp.res =
                CASE operator_type = "Minus" /\ right.t = "f64" -> Ok(EvF64(0 - right.n))
                  [] operator_type = "Bang" /\ right.t = "bool" -> Ok(EvBool(~right.b))
                  [] operator_type = "Bang" /\ right.t = "nil" -> Ok(EvBool(TRUE))
                  [] OTHER -> Err(EvaluateUnaryFail(right, operator_type))

\* The expression that an operand of the comparison level parses to.
OperandExpr(operand) == parse(ParserNew(Toks(operand \o <<"Semicolon", "EOF">>))).statements[1].expr

(***************************************************************************)
(* C15: `print L == R;` and `print L != R;` parse to the print of a binary *)
(* node with that operator and the operands L and R, and `print L ! R;`    *)
(* does not parse to a binary node with the operator `!`.                  *)
(***************************************************************************)
C15_EqualityOperators ==
    \A l \in EqualityOperands, op \in {"EqualEqual", "BangEqual", "Bang"}, r \in EqualityOperands :
        (parser.status # "new" /\ TokenTypes(parser.tokens) = EqualitySource(l, op, r) \o <<"EOF">>) =>
            LET binary == <<StmtPrint(ExprBinary(OperandExpr(l), op, OperandExpr(r)))>>
            IN  IF op = "Bang"
                THEN ~(parser.status = "done" /\ parser.statements = binary)
                ELSE parser.status = "done" /\ parser.statements = binary

\* The block `{ init while (cond) { body incr; } }` that C16 names, with
\* `true` for an omitted condition, as the parser reads it.
ForReference(f) ==
    <<"LeftBrace">> \o f.init \o <<"While", "LeftParen">> \o (IF f.cond = <<>> THEN <<"True">> ELSE f.cond)
        \o <<"RightParen", "LeftBrace">> \o f.body \o (IF f.incr = <<>> THEN <<>> ELSE f.incr \o <<"Semicolon">>)
        \o <<"RightBrace", "RightBrace">>

ParsedReference(f) == parse(ParserNew(Toks(ForReference(f) \o <<"EOF">>))).statements[1]

\* The Interpreter as it was before the last statement.
InterpreterBefore ==
    [interpreter EXCEPT !.environment = run.before,
                        !.stdout = SubSeq(interpreter.stdout, 1, run.out),
                        !.trace = SubSeq(interpreter.trace, 1, run.mark)]

(***************************************************************************)
(* C16: the statement parsed from `for (init; cond; incr) body` executes   *)
(* as the block `{ init; while (cond) { body; incr; } }` does from the     *)
(* same state, `true` standing for an omitted condition: the same result,  *)
(* the same output and, unless it failed, the same environment afterwards  *)
(* (so a variable the initializer declared is gone).                       *)
(***************************************************************************)
C16_ForIsWhileBlock ==
    \A prelude \in Preludes, f \in ForParts :
        (parser.status # "new" /\ TokenTypes(parser.tokens) = prelude \o ForSource(f) \o <<"EOF">>) =>
            /\ parser.status = "done"
            /\ run.n = (IF prelude = <<>> THEN 1 ELSE 2) =>
                  LET ref == stmt_evaluate(InterpreterBefore, ParsedReference(f), MaxFuel)
                  IN  /\ run.res = ref.r
                      /\ interpreter.stdout = ref.I.stdout
                      /\ run.res.ok => interpreter.environment = ref.I.environment

(***************************************************************************)
(* C17: in `{ var x; print x; }` the read of x, declared without an        *)
(* initializer and not assigned, fails as an undefined variable whether or *)
(* not an enclosing scope has a variable x: nothing is printed, neither    *)
(* nil nor the outer value.                                                *)
(***************************************************************************)
C17_UninitializedReadFails ==
    run.stmt = Some(VarPrint("x", None)) =>
        /\ IsUndefinedVariableError(run.res, "x")
        /\ Printed = <<>>

(***************************************************************************)
(* SpecBlock: blocks that run to their end, that a return ends and that a  *)
(* runtime error ends, directly and from a nested block.                   *)
(*   var x = 1;                                                            *)
(*   { var x = 2; print x; }        { var y = 2; { x = 3; } }              *)
(*   { var y = 2; return y; print y; }                                     *)
(*   { var y = 2; { return y; } print 9; }                                 *)
(*   { var y = 2; print z; }        { var y = 2; { print z; } }            *)
(***************************************************************************)
VarY == StmtVar("y", Some(Num(2)))

BlockStatements ==
    { StmtVar("x", Some(Num(1))),
      VarPrint("x", Some(Num(2))),
      StmtBlock(<<VarY, StmtBlock(<<AssignStmt("x", Num(3))>>)>>),
      StmtBlock(<<VarY, StmtReturn(Some(ExprVar("y"))), StmtPrint(ExprVar("y"))>>),
      StmtBlock(<<VarY, StmtBlock(<<StmtReturn(Some(ExprVar("y")))>>), PrintNum(9)>>),
      StmtBlock(<<VarY, StmtPrint(ExprVar("z"))>>),
      StmtBlock(<<VarY, StmtBlock(<<StmtPrint(ExprVar("z"))>>)>>) }

NextBlock == \E stmt \in BlockStatements : interpret(stmt)

SpecBlock == InitInterpreter /\ [][NextBlock]_vars

(***************************************************************************)
(* C18: when a block has ended, however it ended (last statement, return,  *)
(* runtime error), the interpreter's current environment is the one that   *)
(* was current before the block: the same chain of scopes with the same    *)
(* names in each, and not the block's child environment.                   *)
(***************************************************************************)
C18_BlockRestoresEnvironment ==
    (run.stmt # None /\ run.stmt[1].t = "Block") =>
        /\ Depth(interpreter.environment) = Depth(run.before)
        /\ \A j \in 1..Depth(run.before) :
               DOMAIN Scopes(interpreter.environment)[j] = DOMAIN Scopes(run.before)[j]

(***************************************************************************)
(* A source without its `//` comments: each comment is cut from its `//`   *)
(* up to, not including, the end of its line.                              *)
(***************************************************************************)
RECURSIVE DropLine(_)
DropLine(source) == IF source = <<>> \/ source[1] = "\n" THEN source ELSE DropLine(Tail(source))

RECURSIVE StripComments(_)
StripComments(source) ==
    IF source = <<>> THEN <<>>
    ELSE IF Len(source) >= 2 /\ source[1] = "/" /\ source[2] = "/" THEN StripComments(DropLine(source))
    ELSE <<source[1]>> \o StripComments(Tail(source))

\* How often x occurs in the sequence s.
Count(s, x) == Cardinality({i \in DOMAIN s : s[i] = x})

(***************************************************************************)
(* C19: for a source without string literals, the scanner produces the     *)
(* same tokens as for that source with its `//` comments removed; and when *)
(* the source has no comment, every `/` that another character follows     *)
(* gives one Slash token (on a source of `;`, `=`, `/` and newlines).      *)
(***************************************************************************)
C19_CommentsYieldNoToken ==
    (scanner.status # "new" /\ Count(scanner.source, "\"") = 0) =>
        /\ scanner.tokens = scan_tokens(ScannerNew(StripComments(scanner.source))).tokens
        /\ (/\ StripComments(scanner.source) = scanner.source
            /\ \A i \in DOMAIN scanner.source : scanner.source[i] \in {";", "=", "/", "\n"}
            /\ scanner.source # <<>> /\ scanner.source[Len(scanner.source)] # "/")
           => Count(TokenTypes(scanner.tokens), "Slash") = Count(scanner.source, "/")

\* The longest prefix of the source made of alphanumeric characters.
RECURSIVE FirstRun(_)
FirstRun(source) ==
    IF source = <<>> \/ ~is_alphanumeric(source[1]) THEN <<>>
    ELSE <<source[1]>> \o FirstRun(Tail(source))

(***************************************************************************)
(* C20: when the source begins with a letter, whichever it is, and the run *)
(* of alphanumeric characters it begins is followed by another character,  *)
(* the first token is that whole run: its lexeme is the run and its kind   *)
(* is the reserved word's kind when the run is a reserved word and         *)
(* Identifier otherwise.                                                   *)
(***************************************************************************)
C20_IdentifierIsOneToken ==
    (/\ scanner.status # "new"
     /\ scanner.source # <<>>
     /\ is_alphabetic(scanner.source[1])
     /\ Len(FirstRun(scanner.source)) < Len(scanner.source)) =>
        LET run_of_letters == FirstRun(scanner.source)
        IN  /\ scanner.tokens # <<>>
            /\ scanner.tokens[1].lexeme = run_of_letters
            /\ scanner.tokens[1].token_type =
                   IF run_of_letters \in DOMAIN RESERVED_KEYWORDS THEN RESERVED_KEYWORDS[run_of_letters] ELSE "Identifier"

\* The longest prefix of the source that is a numeric literal: a run of
\* digits, then, if a `.` and a digit follow, the `.` and the digits after it.
RECURSIVE DigitRun(_)
DigitRun(source) ==
    IF source = <<>> \/ ~is_numeric(source[1]) THEN <<>>
    ELSE <<source[1]>> \o DigitRun(Tail(source))

FirstNumber(source) ==
    LET whole == DigitRun(source)
        rest  == SubSeq(source, Len(whole) + 1, Len(source))
    IN  IF Len(rest) >= 2 /\ rest[1] = "." /\ is_numeric(rest[2])
        THEN whole \o <<".">> \o DigitRun(Tail(rest))
        ELSE whole

\* The number the digits of a literal denote, as the pair <<digits, scale>>:
\* the literal reads digits / 10^scale.
NumberValue(text) ==
    LET whole == DigitRun(text)
        frac  == IF Len(whole) < Len(text) THEN SubSeq(text, Len(whole) + 2, Len(text)) ELSE <<>>
    IN  <<DecimalValue(whole \o frac), Len(frac)>>

\* The pair <<digits, scale>> of a literal value the scanner produced.
LiteralValue(literal) ==
    CASE literal.l = "usize" -> <<literal.n, 0>>
      [] literal.l = "f64" -> <<literal.n, 0>>
      [] OTHER -> <<>>

(***************************************************************************)
(* C21: when the source begins with a numeric literal (digits, optionally  *)
(* a `.` and more digits) that another character follows, the first token  *)
(* is of kind Number, its lexeme is the whole literal and its literal      *)
(* value is the number the digits denote; scanning the literal does not    *)
(* fail.                                                                   *)
(***************************************************************************)
C21_NumberIsOneToken ==
    (/\ scanner.status # "new"
     /\ scanner.source # <<>>
     /\ is_numeric(scanner.source[1])
     /\ Len(FirstNumber(scanner.source)) < Len(scanner.source)) =>
        LET text == FirstNumber(scanner.source)
        IN  /\ scanner.tokens # <<>>
            /\ scanner.tokens[1].token_type = "Number"
            /\ scanner.tokens[1].lexeme = text
            /\ scanner.tokens[1].literal # None
            /\ LiteralValue(scanner.tokens[1].literal[1]) = NumberValue(text)


(***************************************************************************)
(* SpecAssign: Parser::expression applied to `target = value`, the target  *)
(* of one of the shapes an expression can have.                            *)
(***************************************************************************)
Ident(name) == Token("Identifier", name, None, 1)

\* Each input is the tokens and the expression they denote.
Targets ==
    [variable |-> { <<<<Ident("a")>>, ExprVar("a")>>, <<<<Ident("b")>>, ExprVar("b")>> },
     literal  |-> { <<<<Tok("True")>>, ExprLiteral(LitBool(TRUE))>>, <<<<Tok("False")>>, ExprLiteral(LitBool(FALSE))>>,
                    <<<<Tok("Nil")>>, ExprLiteral(LitNil)>>, <<<<Tok("Number")>>, ExprLiteral(LitF64(2))>> },
     grouping |-> { <<<<Tok("LeftParen"), Ident("a"), Tok("RightParen")>>, ExprGrouping(ExprVar("a"))>>,
                    <<<<Tok("LeftParen"), Tok("True"), Tok("RightParen")>>, ExprGrouping(ExprLiteral(LitBool(TRUE)))>> },
     unary    |-> { <<<<Tok("Minus"), Ident("a")>>, ExprUnary("Minus", ExprVar("a"))>>,
                    <<<<Tok("Bang"), Ident("a")>>, ExprUnary("Bang", ExprVar("a"))>>,
                    <<<<Tok("Minus"), Tok("Number")>>, ExprUnary("Minus", ExprLiteral(LitF64(2)))>> },
     binary   |-> { <<<<Ident("a"), Tok(op), Ident("b")>>, ExprBinary(ExprVar("a"), op, ExprVar("b"))>> :
                        op \in {"Plus", "Minus", "Star", "Slash", "Less", "And", "Or"} },
     call     |-> { <<<<Ident("a"), Tok("LeftParen"), Tok("RightParen")>>, ExprCall(ExprVar("a"), <<>>)>>,
                    <<<<Ident("a"), Tok("LeftParen"), Ident("b"), Tok("RightParen")>>,
                      ExprCall(ExprVar("a"), <<ExprVar("b")>>)>> }]

Values ==
    { <<<<Ident("c")>>, ExprVar("c")>>,
      <<<<Tok("True")>>, ExprLiteral(LitBool(TRUE))>>,
      <<<<Tok("Number")>>, ExprLiteral(LitF64(2))>>,
      <<<<Ident("b"), Tok("Equal"), Ident("c")>>, ExprAssign("b", ExprVar("c"))>>,
      <<<<Ident("b"), Tok("Equal"), Ident("c"), Tok("Equal"), Tok("Nil")>>,
        ExprAssign("b", ExprAssign("c", ExprLiteral(LitNil)))>> }

InitAssign ==
    /\ envir = EnvironmentNew
    /\ interpreter = InterpreterNew
    /\ run = RunNew
    /\ scanner = ScannerIdle
    /\ \E shape \in DOMAIN Targets : \E target \in Targets[shape] : \E value \in Values :
          /\ envOp = [op |-> "new", shape |-> shape, target |-> target, value |-> value]
          /\ parser = ParserNew(target[1] \o <<Tok("Equal")>> \o value[1] \o <<Tok("EOF")>>)

ParseExpression ==
    /\ envOp.op = "new"
    /\ envOp.shape \in DOMAIN Targets
    /\ parser.status = "new"
    /\ LET parsed == expression(parser)
       IN  /\ parser' = parsed.p
           /\ envOp' = [op |-> "expression", shape |-> envOp.shape, target |-> envOp.target,
                        value |-> envOp.value, res |-> parsed.r]
    /\ UNCHANGED <<envir, interpreter, run, scanner>>

NextAssign == ParseExpression

SpecAssign == InitAssign /\ [][NextAssign]_vars

(***************************************************************************)
(* C22: parsing `target = value` gives Assign(target, value), the value    *)
(* itself parsed right-associatively, when the target is a bare variable;  *)
(* for a target of any other shape (literal, grouping, unary, binary,      *)
(* call) it fails with InvalidAssignmentTarget at the `=`, and so gives no *)
(* Assign node.                                                            *)
(***************************************************************************)
C22_AssignmentTargets ==
    envOp.op = "expression" =>
        IF envOp.shape = "variable"
        THEN envOp.res = Ok(ExprAssign(envOp.target[2].name, envOp.value[2]))
        ELSE envOp.res = Err(InvalidAssignmentTarget(Tok("Equal")))

(***************************************************************************)
(* C23: a call of a user function made by a top-level statement that       *)
(* succeeds leaves the environment it was made from as it was, but for the *)
(* variables that the body assigned: no name is added, none is removed and *)
(* every name the body did not assign keeps its binding (the callee's own  *)
(* name included).                                                         *)
(***************************************************************************)
Written == {Trace[k].name : k \in {j \in (run.mark + 1)..Len(Trace) : Trace[j].ev = "write"}}

CalledFunction ==
    /\ run.stmt # None
    /\ run.stmt[1] \in {PrintCall("inc"), PrintCall("g"), CallStmt("peek", <<>>)}
    /\ run.res.ok
    /\ \E k \in (run.mark + 1)..Len(Trace) : Trace[k].ev = "return"

C23_CallLeavesCallerEnvironment ==
    CalledFunction =>
        /\ interpreter.environment.enclosing = run.before.enclosing
        /\ DOMAIN interpreter.environment.env = DOMAIN run.before.env
        /\ \A name \in DOMAIN run.before.env \ Written :
              interpreter.environment.env[name] = run.before.env[name]

(***************************************************************************)
(* SpecFresh: programs that call a function whose body reads a local       *)
(* before it declares it.                                                  *)
(*   fun m(flag) { if (flag) print a; var a = 1; }                         *)
(*   fun w() { print a; var a = 1; }                                       *)
(*   m(false);   m(true);   w();   print a;   var a = 7;                   *)
(***************************************************************************)
FunM ==
    StmtFunction("m", <<"flag">>,
                 <<StmtIf(ExprVar("flag"), StmtPrint(ExprVar("a")), None), StmtVar("a", Some(Num(1)))>>)

FunW == StmtFunction("w", <<>>, <<StmtPrint(ExprVar("a")), StmtVar("a", Some(Num(1)))>>)

ReadsLocalFirst == {CallStmt("m", <<ExprLiteral(LitBool(TRUE))>>), CallStmt("w", <<>>)}

FreshStatements ==
    {FunM, FunW, CallStmt("m", <<ExprLiteral(LitBool(FALSE))>>), StmtPrint(ExprVar("a")), StmtVar("a", Some(Num(7)))}
    \cup ReadsLocalFirst

NextFresh == \E stmt \in FreshStatements : interpret(stmt)

SpecFresh == InitInterpreter /\ [][NextFresh]_vars

(***************************************************************************)
(* C24: a call that reads the local `a` before the body declares it, made  *)
(* where no `a` is in scope, fails as an undefined variable whatever calls *)
(* of the function came before it: nothing that an earlier call bound is   *)
(* there when the call starts.                                             *)
(***************************************************************************)
C24_EachCallFresh ==
    (/\ run.stmt # None
     /\ run.stmt[1] \in ReadsLocalFirst
     /\ get(run.before, run.stmt[1].expr.callee.name).ok
     /\ ~get(run.before, "a").ok) =>
        IsUndefinedVariableError(run.res, "a")

(***************************************************************************)
(* SpecGlobals: programs that read `clock`, the name that Interpreter::new *)
(* binds in globals, at top level, in blocks and in a function.            *)
(*   print clock;   clock();   { print clock; }   { { clock(); } }         *)
(*   fun k() { print clock; }   k();   { k(); }   var clock = 1;           *)
(***************************************************************************)
PrintClock == StmtPrint(ExprVar("clock"))

FunK == StmtFunction("k", <<>>, <<PrintClock>>)

ReadsClock ==
    { PrintClock, CallStmt("clock", <<>>), StmtBlock(<<PrintClock>>),
      StmtBlock(<<StmtBlock(<<CallStmt("clock", <<>>)>>)>>),
      CallStmt("k", <<>>), StmtBlock(<<CallStmt("k", <<>>)>>) }

CallsK == {CallStmt("k", <<>>), StmtBlock(<<CallStmt("k", <<>>)>>)}

GlobalsStatements == ReadsClock \cup {FunK, StmtVar("clock", Some(Num(1)))}

NextGlobals == \E stmt \in GlobalsStatements : interpret(stmt)

SpecGlobals == InitInterpreter /\ [][NextGlobals]_vars

(***************************************************************************)
(* C25: a statement that reads `clock` at top level, in a block, in a      *)
(* nested block or in the body of a function it calls (the function being  *)
(* defined), where the program declared no `clock` of its own, succeeds    *)
(* and reads the binding of `clock`: the name that construction put in     *)
(* globals is resolved from wherever it is read.                           *)
(***************************************************************************)
C25_GlobalsResolvable ==
    (/\ run.stmt # None
     /\ run.stmt[1] \in ReadsClock
     /\ run.stmt[1] \in CallsK => get(run.before, "k").ok
     /\ ~get(run.before, "clock").ok) =>
        /\ run.res.ok
        /\ \E j \in (run.mark + 1)..Len(Trace) : IsRead(j, "clock")

(***************************************************************************)
(* C26: parsing a statement in which a `(` has no `)` reports a parse      *)
(* error and yields no statement: the parse does not end well with a       *)
(* Grouping node for the unmatched `(`.                                    *)
(***************************************************************************)
C26_UnclosedGroupingFails ==
    \A types \in UnclosedSources :
        (parser.status # "new" /\ TokenTypes(parser.tokens) = types \o <<"EOF">>) =>
            /\ parser.status # "done"
            /\ parser.reported # <<>>

(***************************************************************************)
(* C27: for tokens that end with EOF, all through parse the cursor of the   *)
(* Parser is an index of the token vector, no token before it is an        *)
(* EOF, and `previous` was not read at cursor 0.  The cursor only grows    *)
(* (advance and peek_consume add 1 to it), and a read of tokens outside    *)
(* the vector, which `previous` at cursor 0 is, stops the parser where it  *)
(* is; so what holds of the cursor that parse leaves held all through it.  *)
(***************************************************************************)
C27_CursorWithinTokens ==
    /\ 0 <= parser.current
    /\ parser.current < Len(parser.tokens)
    /\ \A i \in 1..parser.current : parser.tokens[i].token_type # "EOF"
    /\ parser.status = "panic" => parser.current >= 1

\* parse met an error at the EOF, and synchronize's advance left the cursor on it.
C27_Witness ==
    /\ parser.status = "panic"
    /\ parser.reported # <<>>
    /\ parser.reported[1].kind = "ParseEOF"
    /\ parser.current = Len(parser.tokens) - 1
=============================================================================
